---- MODULE Spec2Model ----
(***************************************************************************)
(* The content-review dashboard: the React App component (posts,           *)
(* postHistory, currentPushId, isLoading, notification), its asynchronous  *)
(* handlers (approve, reject, edit, rephrase + refresh) and the backend    *)
(* content store they call.  Every handler is split at its awaits: the     *)
(* request is issued by the UI, handled by the backend, and its response   *)
(* is delivered to the continuation of the handler, in any order.          *)
(*                                                                         *)
(* Spec is the review workflow with every handler.  ReviewSpec, EditSpec   *)
(* and ToneSpec are the same App with a part of its handlers (approve and  *)
(* reject; the textarea; the tone slider and rephrase), GroupSpec loads a  *)
(* store with several items, SocialSpec is the credentials modal with the  *)
(* useSocialEnv hook, and AdapterSpec the publish call of a platform       *)
(* adapter.  NotifySpec is ReviewSpec with the timeout that hides the      *)
(* notification, under weak fairness of every timer; MultiSpec reviews     *)
(* one item of a store with several; SelectSpec selects pushes in the      *)
(* history and rephrases; SaveSpec types credentials and saves them;       *)
(* MediaSpec converts an item with media fields to a Post.                 *)
(***************************************************************************)
EXTENDS Integers, Sequences, FiniteSets, TLC

\* ------------------------------------------------------------------ bounds
MaxItems == 1
MaxText == 3
MaxTasks == 2
MaxSocialTasks == 2
MaxGroupItems == 5
MaxTimers == 2

Items == 1..MaxItems
Texts == 1..MaxText
Slots == 1..MaxTasks
SocialSlots == 1..MaxSocialTasks
GroupItems == 1..MaxGroupItems
TimerIds == 1..MaxTimers

\* null of currentPushId
Null == <<>>

\* ------------------------------------------------- provenance of the items
\* A string is the sequence of its hyphen-free pieces and hyphens; <<>> is a
\* missing (or empty) field.  The content items the backend holds come from
\* these repositories and branches:
\*   1  app / main      2  (none) / (none)     3  app-v2 / fix
\*   4  app / v2-fix    5  app / (none)
RepositoryTable ==
    << <<"app">>, <<>>, <<"app", "-", "v2">>, <<"app">>, <<"app">> >>

BranchTable ==
    << <<"main">>, <<>>, <<"fix">>, <<"v2", "-", "fix">>, <<>> >>

\* item.repository / item.branch
Repository(i) == RepositoryTable[((i - 1) % Len(RepositoryTable)) + 1]
Branch(i) == BranchTable[((i - 1) % Len(BranchTable)) + 1]

\* `${post.repository || 'unknown'}-${post.branch || 'main'}`
GroupKey(i) ==
    (IF Repository(i) = <<>> THEN <<"unknown">> ELSE Repository(i))
        \o <<"-">>
        \o (IF Branch(i) = <<>> THEN <<"main">> ELSE Branch(i))

\* ------------------------------------------------------- status vocabulary
BackendStatuses == {"pending", "rephrased", "approved", "rejected", "published"}
Editable == {"pending", "rephrased"}
Terminal == {"rejected", "published"}

\* mutant of ConvertStatus: the 'rejected' case is missing
ConvertStatusNoRejected(s) ==
    IF s = "pending" THEN "pending"
    ELSE IF s = "rephrased" THEN "pending"
    ELSE "posted"

\* mutant of ConvertStatus: the 'rephrased' case is missing
ConvertStatusNoRephrased(s) ==
    IF s = "pending" THEN "pending"
    ELSE IF s = "rejected" THEN "disapproved"
    ELSE "posted"

\* status: item.status === 'pending' ? 'pending' : ... 'rephrased' ? 'pending'
\*         : ... 'rejected' ? 'disapproved' : 'posted'
ConvertStatus(s) ==
    IF s = "pending" THEN "pending"
    ELSE IF s = "rephrased" THEN "pending"
    ELSE IF s = "rejected" THEN "disapproved"
    ELSE "posted"

convertContentItemToPost(item) ==
    [id |-> item.id, status |-> ConvertStatus(item.status), content |-> item.content]

\* mutant of BackendStatus: the UI status is sent as it is
BackendStatusVerbatim(newStatus) == newStatus

\* newStatus === 'disapproved' ? 'rejected' : newStatus === 'posted' ? 'published' : newStatus
BackendStatus(newStatus) ==
    IF newStatus = "disapproved" THEN "rejected"
    ELSE IF newStatus = "posted" THEN "published"
    ELSE newStatus

\* ---------------------------------------------------------- sequence tools
\* contentItems.map(convertContentItemToPost)
RECURSIVE BackendPosts(_)
BackendPosts(contentItems) ==
    IF contentItems = <<>> THEN <<>>
    ELSE <<convertContentItemToPost(Head(contentItems))>> \o BackendPosts(Tail(contentItems))

\* index of the push with this id in a history, 0 when absent (Array.find)
RECURSIVE FindPush(_, _, _)
FindPush(h, key, k) ==
    IF k > Len(h) THEN 0
    ELSE IF h[k].id = key THEN k
    ELSE FindPush(h, key, k + 1)

\* the reduce of loadContentFromBackend / refreshContentFromBackend followed by
\* Object.entries: pushes in the order their key first occurs
RECURSIVE GroupPosts(_, _)
GroupPosts(ps, acc) ==
    IF ps = <<>> THEN acc
    ELSE LET p == Head(ps)
             key == GroupKey(p.id)
             k == FindPush(acc, key, 1)
         IN  IF k = 0
             THEN GroupPosts(Tail(ps), Append(acc, [id |-> key, posts |-> <<p>>]))
             ELSE GroupPosts(Tail(ps),
                             [acc EXCEPT ![k].posts = Append(@, p)])

NewPushes(contentItems) ==
    GroupPosts(BackendPosts(contentItems), <<>>)

\* -------------------------------------------------------------------- tone
\* Header: <input type="range" min="0" max="100">, the slider's values
ToneMin == 0
ToneMax == 100
SliderValues == ToneMin..ToneMax

\* the slider values the user moves the slider to: every ToneStep-th one
ToneStep == 10
Tones == {t \in SliderValues : t % ToneStep = 0}

\* useState<number>(50)
InitialTone == 50

\* the divisor of normalizedTone
ToneDivisor == 100

\* mutant of NormalizedTone: the slider's value is sent as it is
NormalizedToneRaw(t) == [num |-> t, den |-> 1]

\* const normalizedTone = tone / 100: the quotient, as the fraction num / den
NormalizedTone(t) == [num |-> t, den |-> ToneDivisor]

\* ------------------------------------------------------ social credentials
\* Object.keys(SOCIAL_ENV_FIELD_API_KEYS): the ten credential fields in the
\* order of the table
SocialEnvFieldKeys ==
    <<"twitterApiKey", "twitterApiSecretKey", "twitterAccessToken",
      "twitterAccessTokenSecret", "blueskyIdentifier", "blueskyAppPassword",
      "blueskyServiceUrl", "linkedinClientId", "linkedinClientSecret",
      "linkedinRedirectUri">>

Fields == {SocialEnvFieldKeys[k] : k \in 1..Len(SocialEnvFieldKeys)}

\* the fields the user types into: one whose default is empty and one whose
\* default is not
TypedFields == {"twitterApiKey", "blueskyServiceUrl"}

defaultSocialEnvValues ==
    [f \in Fields |->
        IF f = "blueskyServiceUrl" THEN "https://bsky.social"
        ELSE IF f = "linkedinRedirectUri" THEN "http://localhost:3000/callback"
        ELSE ""]

\* what the user types into a field of the form: a secret, or its default again
Typed(f) == {defaultSocialEnvValues[f], "secret"}

\* mutant of SOCIAL_ENV_FIELD_API_KEYS: two fields are given the same key
ApiKeysWithClash ==
    [twitterApiKey |-> "twitter_api_key",
     twitterApiSecretKey |-> "twitter_api_key",
     twitterAccessToken |-> "twitter_access_token",
     twitterAccessTokenSecret |-> "twitter_access_token_secret",
     blueskyIdentifier |-> "bluesky_identifier",
     blueskyAppPassword |-> "bluesky_app_password",
     blueskyServiceUrl |-> "bluesky_service_url",
     linkedinClientId |-> "linkedin_client_id",
     linkedinClientSecret |-> "linkedin_client_secret",
     linkedinRedirectUri |-> "linkedin_redirect_uri"]

SOCIAL_ENV_FIELD_API_KEYS ==
    [twitterApiKey |-> "twitter_api_key",
     twitterApiSecretKey |-> "twitter_api_secret_key",
     twitterAccessToken |-> "twitter_access_token",
     twitterAccessTokenSecret |-> "twitter_access_token_secret",
     blueskyIdentifier |-> "bluesky_identifier",
     blueskyAppPassword |-> "bluesky_app_password",
     blueskyServiceUrl |-> "bluesky_service_url",
     linkedinClientId |-> "linkedin_client_id",
     linkedinClientSecret |-> "linkedin_client_secret",
     linkedinRedirectUri |-> "linkedin_redirect_uri"]

\* SOCIAL_ENV_FIELD_API_KEYS[field]
ApiKey(f) == SOCIAL_ENV_FIELD_API_KEYS[f]

ApiKeys == {ApiKey(f) : f \in Fields}

\* payload[apiKey] = value: the entry is added, or replaced when the key is there
SetEntry(payload, apiKey, value) ==
    [k \in DOMAIN payload \cup {apiKey} |-> IF k = apiKey THEN value ELSE payload[k]]

\* the forEach of toSocialEnvApiPayload over the fields left to visit
RECURSIVE PayloadFrom(_, _, _)
PayloadFrom(fields, values, payload) ==
    IF fields = <<>> THEN payload
    ELSE PayloadFrom(Tail(fields), values,
                     SetEntry(payload, ApiKey(Head(fields)), values[Head(fields)]))

\* toSocialEnvApiPayload
toSocialEnvApiPayload(values) ==
    PayloadFrom(SocialEnvFieldKeys, values, [k \in {} |-> ""])

\* the local-storage entry: absent, a text JSON.parse rejects, or the JSON
\* text of an object with some of the fields
Absent == [kind |-> "absent"]
Corrupt == [kind |-> "corrupt"]

\* JSON.stringify(values)
JSONStringify(values) == [kind |-> "json", value |-> values]

\* readFromStorage: {...defaultSocialEnvValues, ...parsed}, the defaults when
\* the entry is absent or does not parse
readFromStorage(entry) ==
    IF entry.kind = "json"
    THEN [f \in Fields |-> IF f \in DOMAIN entry.value THEN entry.value[f]
                           ELSE defaultSocialEnvValues[f]]
    ELSE defaultSocialEnvValues

\* GET /social-env/status: credential name -> configured
StatusOf(secrets) == [k \in ApiKeys |-> secrets[k] # ""]

\* error === null
NoError == ""

\* a response that carries no status map
Missing == [kind |-> "missing"]

\* the empty status map {}
EmptyStatus == [k \in {} |-> FALSE]

\* response.status || {}
StatusOrEmpty(status) == IF status = Missing THEN EmptyStatus ELSE status

\* a suspended saveValues / clearValues / refreshStatus call
NoSocialTask ==
    [op |-> "none", values |-> Null, payload |-> Null, pc |-> "none",
     ok |-> FALSE, status |-> Missing]

\* ---------------------------------------------------------- platform adapter
\* "Tweets are limited to 280 characters" / "Posts are limited to 300 characters"
TweetLimit == 280
BlueskyLimit == 300

\* the longest text tried is this much over the larger limit
MaxOver == 2

Platforms == {"X", "Bluesky"}

LengthLimit(platform) == IF platform = "X" THEN TweetLimit ELSE BlueskyLimit

\* the lengths of the texts handed to the adapter
Lengths == 1..(BlueskyLimit + MaxOver)

\* mutant of ValidLength: a text of exactly the limit is refused
ValidLengthBelowLimit(platform, len) == len < LengthLimit(platform)

\* the adapter's length validation ("The client validates this")
ValidLength(platform, len) == len <= LengthLimit(platform)

\* the adapter at rest
NoCall == [pc |-> "idle", platform |-> "", len |-> 0, result |-> "", created |-> 0]

\* ------------------------------------------------------------------- media
\* the longest image_content / video_content / audio_content / media tried
MaxMedia == 2

\* a media reference: a URL or a base64 payload; "" is the empty string
MediaRefs == {"", "a", "b"}

\* the sequences of at most n elements of S
RECURSIVE SeqsUpTo(_, _)
SeqsUpTo(S, n) ==
    IF n = 0 THEN {<<>>}
    ELSE SeqsUpTo(S, n - 1)
            \cup {Append(s, x) : s \in {q \in SeqsUpTo(S, n - 1) : Len(q) = n - 1}, x \in S}

\* a field of the item: absent (undefined, null, not an array) or an array
MediaFields(S) ==
    {[isArray |-> FALSE, list |-> <<>>]}
        \cup {[isArray |-> TRUE, list |-> s] : s \in SeqsUpTo(S, MaxMedia)}

\* the entries a legacy media field holds
LegacyEntries == {[url |-> "old", type |-> "image"]}

\* `data:audio/mpeg;base64,${base64Audio}`
AudioDataUrl(base64Audio) == "data:audio/mpeg;base64," \o base64Audio

\* forEach over image_content or video_content: media.push({url, type}) if (url)
RECURSIVE PushUrls(_, _, _)
PushUrls(list, type, media) ==
    IF list = <<>> THEN media
    ELSE PushUrls(Tail(list), type,
                  IF Head(list) # ""
                  THEN Append(media, [url |-> Head(list), type |-> type])
                  ELSE media)

\* forEach over audio_content from this index on: a data URL with the
\* caption `Audio ${index + 1}` (the number is kept) if (base64Audio)
RECURSIVE PushAudio(_, _, _)
PushAudio(list, index, media) ==
    IF index >= Len(list) THEN media
    ELSE PushAudio(list, index + 1,
                   IF list[index + 1] # ""
                   THEN Append(media, [url |-> AudioDataUrl(list[index + 1]),
                                       type |-> "audio", caption |-> index + 1])
                   ELSE media)

\* mutant of ConvertMedia: the videos are pushed before the images
ConvertMediaVideosFirst(item) ==
    LET videos == IF item.video_content.isArray
                  THEN PushUrls(item.video_content.list, "video", <<>>) ELSE <<>>
        images == IF item.image_content.isArray
                  THEN PushUrls(item.image_content.list, "image", videos) ELSE videos
        audios == IF item.audio_content.isArray
                  THEN PushAudio(item.audio_content.list, 0, images) ELSE images
    IN  IF Len(audios) = 0 /\ item.media.isArray
        THEN audios \o item.media.list
        ELSE audios

\* convertContentItemToPost: the media array built from image_content, then
\* video_content, then audio_content, else the legacy media field
ConvertMedia(item) ==
    LET images == IF item.image_content.isArray
                  THEN PushUrls(item.image_content.list, "image", <<>>) ELSE <<>>
        videos == IF item.video_content.isArray
                  THEN PushUrls(item.video_content.list, "video", images) ELSE images
        audios == IF item.audio_content.isArray
                  THEN PushAudio(item.audio_content.list, 0, videos) ELSE videos
    IN  IF Len(audios) = 0 /\ item.media.isArray
        THEN audios \o item.media.list
        ELSE audios

\* an item without media fields, and a Post not made yet
NoMedia ==
    [image_content |-> [isArray |-> FALSE, list |-> <<>>],
     video_content |-> [isArray |-> FALSE, list |-> <<>>],
     audio_content |-> [isArray |-> FALSE, list |-> <<>>],
     media |-> [isArray |-> FALSE, list |-> <<>>]]

NotConverted == [done |-> FALSE, media |-> <<>>]

\* ------------------------------------------------------------------- state
VARIABLES
    store,            \* backend: the ContentItem collection
    posts,            \* App: posts
    postHistory,      \* App: postHistory
    currentPushId,    \* App: currentPushId
    isLoading,        \* App: isLoading
    backendConnected, \* App: backendConnected
    notification,     \* App: notification ("" when hidden)
    messageTimeoutRef,\* App: messageTimeoutRef.current (0 when null)
    timers,           \* window: the timeouts of showNotification still pending
    loadPc,           \* position of the mount effect loadContentFromBackend
    tasks,            \* the handler invocations suspended at an await
    shownPosted,      \* history: the items the UI has shown as 'posted'
    tone,             \* App: tone (the Content Tone slider)
    socialValues,     \* useSocialEnv: values
    socialStatus,     \* useSocialEnv: status
    isSyncing,        \* useSocialEnv: isSyncing
    socialError,      \* useSocialEnv: error (NoError when null)
    localStorage,     \* window.localStorage entry 'showndev-social-env'
    formValues,       \* SocialEnvModal: formValues
    isSaving,         \* SocialEnvModal: isSaving
    isClearing,       \* SocialEnvModal: isClearing
    backendSecrets,   \* backend: the social credentials it holds
    isSocialModalOpen,\* App: isSocialModalOpen
    socialTasks,      \* the saveValues / clearValues calls suspended at an await
    adapter,          \* Platform Adapter: the publish call and what it created
    mediaItem,        \* backend: the media fields of a ContentItem
    postMedia         \* App: the media list of the Post made from it

\* the notification and the timeout that hides it
notificationVars == <<notification, messageTimeoutRef, timers>>

socialVars == <<socialValues, socialStatus, isSyncing, socialError, localStorage,
                formValues, isSaving, isClearing, isSocialModalOpen,
                backendSecrets, socialTasks>>

mediaVars == <<mediaItem, postMedia>>

appVars == <<store, posts, postHistory, currentPushId, isLoading,
             backendConnected, notificationVars, loadPc, tasks, shownPosted>>

vars == <<store, posts, postHistory, currentPushId, isLoading,
          backendConnected, notificationVars, loadPc, tasks, shownPosted,
          tone, socialVars, adapter, mediaVars>>

\* a suspended handler: the operation, the post, the typed or returned text
\* (arg), the status sent, where it is suspended (pc), the outcome of its
\* request (ok, err), the currentPushId its closure captured (push), the
\* items a refresh fetched (items) and the tone a rephrase request carries
NoTask ==
    [op |-> "none", id |-> 0, arg |-> 0, status |-> "", via |-> "", pc |-> "none",
     ok |-> FALSE, err |-> "", push |-> Null, items |-> <<>>, tone |-> Null]

NewTask(op, id) == [NoTask EXCEPT !.op = op, !.id = id, !.pc = "sent"]

\* GET /content: the collection as a sequence of ContentItems
ContentItems ==
    [i \in DOMAIN store |-> [id |-> i, status |-> store[i].status, content |-> store[i].content]]

\* getCurrentPush()?.posts || posts
CurrentPosts ==
    LET k == FindPush(postHistory, currentPushId, 1)
    IN  IF k = 0 THEN posts ELSE postHistory[k].posts

PostsOf(seq) == {seq[k] : k \in 1..Len(seq)}

\* every Post the UI holds for an item, in posts or in a push of the history
HistoryPosts == UNION {PostsOf(postHistory[k].posts) : k \in 1..Len(postHistory)}

FreeSlots == {s \in Slots : tasks[s].op = "none"}

\* an external reference exists exactly for a published item
InitItem(st) ==
    [status |-> st, content |-> 1, extId |-> IF st = "published" THEN 1 ELSE 0]

\* no item with media is converted
MediaStart ==
    /\ mediaItem = NoMedia
    /\ postMedia = NotConverted

\* App and hooks right after the first render, whatever the store holds
AppStart ==
    /\ posts = <<>>
    /\ postHistory = <<>>
    /\ currentPushId = Null
    /\ isLoading = [i \in DOMAIN store |-> FALSE]
    /\ backendConnected = FALSE
    /\ notification = ""
    /\ messageTimeoutRef = 0
    /\ timers = {}
    /\ loadPc = "start"
    /\ tasks = [s \in Slots |-> NoTask]
    /\ shownPosted = {}
    /\ tone = InitialTone

\* useSocialEnv and SocialEnvModal after the mount effects: the values read
\* from local storage, refreshStatus suspended at its fetch
SocialStart ==
    /\ socialValues = readFromStorage(localStorage)
    /\ socialStatus = EmptyStatus
    /\ isSyncing = FALSE
    /\ socialError = NoError
    /\ formValues = defaultSocialEnvValues
    /\ isSaving = FALSE
    /\ isClearing = FALSE
    /\ isSocialModalOpen = FALSE
    /\ socialTasks = [s \in SocialSlots |->
                        IF s = 1 THEN [NoSocialTask EXCEPT !.op = "status", !.pc = "sent"]
                        ELSE NoSocialTask]

Init ==
    /\ store \in [Items -> {InitItem(st) : st \in BackendStatuses}]
    /\ AppStart
    /\ localStorage = Absent
    /\ backendSecrets = [k \in ApiKeys |-> ""]
    /\ SocialStart
    /\ adapter = NoCall
    /\ MediaStart

\* the card the UI shows for an item: its Post in the current posts
Shown(i) == {p \in PostsOf(CurrentPosts) : p.id = i}

ShownPostedNow == {i \in DOMAIN store : \E p \in Shown(i) : p.status = "posted"}

\* history kept with every step: the items shown as 'posted' so far
RecordShown == shownPosted' = shownPosted \cup ShownPostedNow'

\* ------------------------------------------------------------ notification
\* window.setTimeout returns an id no pending timeout has
NextTimer(ref) == (ref % MaxTimers) + 1

\* mutant of ShowNotification: the pending timeout is not cleared
ShowNotificationNoClear(msg) ==
    /\ notification' = msg
    /\ messageTimeoutRef' = NextTimer(messageTimeoutRef)
    /\ timers' = timers \cup {NextTimer(messageTimeoutRef)}

\* showNotification: clearTimeout(messageTimeoutRef.current), setNotification(msg),
\* messageTimeoutRef.current = window.setTimeout(..., 8002)
ShowNotification(msg) ==
    /\ notification' = msg
    /\ messageTimeoutRef' = NextTimer(messageTimeoutRef)
    /\ timers' = (timers \ {messageTimeoutRef}) \cup {NextTimer(messageTimeoutRef)}

\* the callback of the timeout with this id: setNotification('')
TimerFires(id) ==
    /\ id \in timers
    /\ notification' = ""
    /\ timers' = timers \ {id}
    /\ UNCHANGED <<store, posts, postHistory, currentPushId, isLoading,
                   backendConnected, messageTimeoutRef, loadPc, tasks>>
    /\ RecordShown
    /\ UNCHANGED <<tone, socialVars, adapter, mediaVars>>

\* a pending timeout of showNotification expires
NotificationTimeout == \E id \in TimerIds : TimerFires(id)

\* ------------------------------------------------------------ mount effect
\* loadContentFromBackend: testBackendConnection, then getContentItems
LoadContentFromBackend ==
    /\ loadPc = "start"
    /\ loadPc' = "done"
    /\ \E isBackendAvailable \in BOOLEAN, fetched \in BOOLEAN :
         IF ~isBackendAvailable
         THEN /\ backendConnected' = FALSE
              /\ ShowNotification("Backend unavailable - using mock data")
              /\ UNCHANGED postHistory
         ELSE IF fetched
         THEN /\ backendConnected' = TRUE
              /\ postHistory' = NewPushes(ContentItems)
              /\ UNCHANGED notificationVars
         ELSE /\ backendConnected' = FALSE
              /\ ShowNotification("Error connecting to backend - using mock data")
              /\ UNCHANGED postHistory
    /\ UNCHANGED <<store, posts, currentPushId, isLoading, tasks>>
    /\ RecordShown
    /\ UNCHANGED <<tone, socialVars, adapter, mediaVars>>

\* mutant of LoadPushTo: the id is selected whether or not a push has it
LoadPushToUnchecked(pushId) ==
    LET k == FindPush(postHistory, pushId, 1)
    IN  /\ posts' = IF k # 0 THEN postHistory[k].posts ELSE <<>>
        /\ currentPushId' = pushId

\* loadPush
LoadPushTo(pushId) ==
    LET k == FindPush(postHistory, pushId, 1)
    IN  IF k # 0
        THEN /\ posts' = postHistory[k].posts
             /\ currentPushId' = pushId
        ELSE UNCHANGED <<posts, currentPushId>>

\* effect "Load latest push"
LoadLatestPush ==
    /\ Len(postHistory) > 0
    /\ currentPushId = Null
    /\ LoadPushTo(postHistory[Len(postHistory)].id)
    /\ UNCHANGED <<store, postHistory, isLoading, backendConnected,
                   notificationVars, loadPc, tasks>>
    /\ RecordShown
    /\ UNCHANGED <<tone, socialVars, adapter, mediaVars>>

\* Sidebar: onLoadPush of one of the listed pushes
LoadPush ==
    /\ \E k \in 1..Len(postHistory) : LoadPushTo(postHistory[k].id)
    /\ UNCHANGED <<store, postHistory, isLoading, backendConnected,
                   notificationVars, loadPc, tasks>>
    /\ RecordShown
    /\ UNCHANGED <<tone, socialVars, adapter, mediaVars>>

\* the ids loadPush is called with: the keys of the items and one that no
\* item has
PushIds == {GroupKey(i) : i \in GroupItems} \cup {<<"gone">>}

\* loadPush(pushId) with any id, once the effects of the last render have run
\* (the effect "Load latest push" runs before the next click is handled)
SelectPush ==
    /\ ~(Len(postHistory) > 0 /\ currentPushId = Null)
    /\ \E pushId \in PushIds : LoadPushTo(pushId)
    /\ UNCHANGED <<store, postHistory, isLoading, backendConnected,
                   notificationVars, loadPc, tasks>>
    /\ RecordShown
    /\ UNCHANGED <<tone, socialVars, adapter, mediaVars>>

\* the slot a new handler invocation takes
RECURSIVE LeastFree(_)
LeastFree(s) == IF tasks[s].op = "none" THEN s ELSE LeastFree(s + 1)

\* mutant of SetStatus: the status of every post of the list is set
SetStatusAll(seq, postId, newStatus) ==
    [k \in 1..Len(seq) |-> [seq[k] EXCEPT !.status = newStatus]]

\* setPosts(prev => prev.map(post => post.id === postId ? {...post, status} : post))
SetStatus(seq, postId, newStatus) ==
    [k \in 1..Len(seq) |->
        IF seq[k].id = postId THEN [seq[k] EXCEPT !.status = newStatus] ELSE seq[k]]

SetContent(seq, postId, newContent) ==
    [k \in 1..Len(seq) |->
        IF seq[k].id = postId THEN [seq[k] EXCEPT !.content = newContent] ELSE seq[k]]

\* setPostHistory(prev => prev.map(push => ({...push, posts: push.posts.map(...)})))
SetHistoryStatus(h, postId, newStatus) ==
    [k \in 1..Len(h) |-> [h[k] EXCEPT !.posts = SetStatus(@, postId, newStatus)]]

SetHistoryContent(h, postId, newContent) ==
    [k \in 1..Len(h) |-> [h[k] EXCEPT !.posts = SetContent(@, postId, newContent)]]

\* ----------------------------------------------------------------- approve
\* PostCard: the Approve button, disabled unless post.status is 'pending'
ApproveEnabled(p) == p.status = "pending"

\* handleApprove up to its await approveAndPost(postId)
IssueApprove ==
    /\ FreeSlots # {}
    /\ \E p \in PostsOf(CurrentPosts) :
         /\ ApproveEnabled(p)
         /\ tasks' = [tasks EXCEPT ![LeastFree(1)] = NewTask("approve", p.id)]
    /\ UNCHANGED <<store, posts, postHistory, currentPushId, isLoading,
                   backendConnected, notificationVars, loadPc>>
    /\ RecordShown
    /\ UNCHANGED <<tone, socialVars, adapter, mediaVars>>

\* the error kinds a Platform Adapter returns
AdapterErrorKinds == {"RateLimited", "TransportError"}

\* POST /content/{id}/approve: the controller validates the status, calls
\* the adapter once and records published with the external reference
BackendApprove(s) ==
    LET t == tasks[s] IN
    /\ t.op = "approve" /\ t.pc = "sent"
    /\ IF store[t.id].status \in Editable
       THEN \E result \in {"ok"} \cup AdapterErrorKinds :
              IF result = "ok"
              THEN /\ store' = [store EXCEPT ![t.id].status = "published",
                                              ![t.id].extId = 1]
                   /\ tasks' = [tasks EXCEPT ![s].pc = "resp", ![s].ok = TRUE]
              ELSE /\ tasks' = [tasks EXCEPT ![s].pc = "resp", ![s].ok = FALSE,
                                              ![s].err = result]
                   /\ UNCHANGED store
       ELSE /\ tasks' = [tasks EXCEPT ![s].pc = "resp", ![s].ok = FALSE,
                                       ![s].err = "Conflict"]
            /\ UNCHANGED store
    /\ UNCHANGED <<posts, postHistory, currentPushId, isLoading,
                   backendConnected, notificationVars, loadPc>>
    /\ RecordShown
    /\ UNCHANGED <<tone, socialVars, adapter, mediaVars>>

\* mutant of ApproveResponse: the local update is not skipped on failure
ApproveResponseIgnoringFailure(s) ==
    LET t == tasks[s] IN
    /\ t.op = "approve" /\ t.pc = "resp"
    /\ posts' = SetStatus(posts, t.id, "posted")
    /\ postHistory' = SetHistoryStatus(postHistory, t.id, "posted")
    /\ ShowNotification(IF t.ok THEN "Approved & Posted!" ELSE "Error approving and posting")
    /\ tasks' = [tasks EXCEPT ![s] = NoTask]
    /\ UNCHANGED <<store, currentPushId, isLoading, backendConnected, loadPc>>
    /\ RecordShown
    /\ UNCHANGED <<tone, socialVars, adapter, mediaVars>>

\* mutant of ApproveResponse: the local status becomes 'approved', not 'posted'
ApproveResponseApproved(s) ==
    LET t == tasks[s] IN
    /\ t.op = "approve" /\ t.pc = "resp"
    /\ IF t.ok
       THEN /\ posts' = SetStatus(posts, t.id, "approved")
            /\ postHistory' = SetHistoryStatus(postHistory, t.id, "approved")
            /\ ShowNotification("Approved & Posted!")
       ELSE /\ ShowNotification("Error approving and posting")
            /\ UNCHANGED <<posts, postHistory>>
    /\ tasks' = [tasks EXCEPT ![s] = NoTask]
    /\ UNCHANGED <<store, currentPushId, isLoading, backendConnected, loadPc>>
    /\ RecordShown
    /\ UNCHANGED <<tone, socialVars, adapter, mediaVars>>

\* mutant of ApproveResponse: the catch block sends the request again
ApproveResponseRetry(s) ==
    LET t == tasks[s] IN
    /\ t.op = "approve" /\ t.pc = "resp"
    /\ IF t.ok
       THEN /\ posts' = SetStatus(posts, t.id, "posted")
            /\ postHistory' = SetHistoryStatus(postHistory, t.id, "posted")
            /\ ShowNotification("Approved & Posted!")
            /\ tasks' = [tasks EXCEPT ![s] = NoTask]
       ELSE /\ ShowNotification("Error approving and posting")
            /\ tasks' = [tasks EXCEPT ![s] = NewTask("approve", t.id)]
            /\ UNCHANGED <<posts, postHistory>>
    /\ UNCHANGED <<store, currentPushId, isLoading, backendConnected, loadPc>>
    /\ RecordShown
    /\ UNCHANGED <<tone, socialVars, adapter, mediaVars>>

\* handleApprove after its await: the success path or the catch block
ApproveResponse(s) ==
    LET t == tasks[s] IN
    /\ t.op = "approve" /\ t.pc = "resp"
    /\ IF t.ok
       THEN /\ posts' = SetStatus(posts, t.id, "posted")
            /\ postHistory' = SetHistoryStatus(postHistory, t.id, "posted")
            /\ ShowNotification("Approved & Posted!")
       ELSE /\ ShowNotification("Error approving and posting")
            /\ UNCHANGED <<posts, postHistory>>
    /\ tasks' = [tasks EXCEPT ![s] = NoTask]
    /\ UNCHANGED <<store, currentPushId, isLoading, backendConnected, loadPc>>
    /\ RecordShown
    /\ UNCHANGED <<tone, socialVars, adapter, mediaVars>>

\* ------------------------------------------------------------------ reject
\* PostCard: the Reject button, disabled unless post.status is 'pending'
RejectEnabled(p) == p.status = "pending"

\* updatePostStatus(id, 'disapproved') up to its await updateContentStatus
IssueReject ==
    /\ FreeSlots # {}
    /\ \E p \in PostsOf(CurrentPosts) :
         /\ RejectEnabled(p)
         /\ tasks' = [tasks EXCEPT ![LeastFree(1)] =
                        [NewTask("reject", p.id) EXCEPT
                            !.status = BackendStatus("disapproved")]]
    /\ UNCHANGED <<store, posts, postHistory, currentPushId, isLoading,
                   backendConnected, notificationVars, loadPc>>
    /\ RecordShown
    /\ UNCHANGED <<tone, socialVars, adapter, mediaVars>>

\* POST /content/{id}/reject (updateStatus): a non-terminal item becomes
\* rejected; on a rejected item the call no-ops or is refused; a published
\* item is never changed
BackendReject(s) ==
    LET t == tasks[s] IN
    /\ t.op = "reject" /\ t.pc = "sent"
    /\ \E outcome \in {"ok", "Conflict", "TransportError"} :
         /\ outcome = "ok" =>
               /\ t.status \in BackendStatuses
               /\ store[t.id].status \in Editable \cup {t.status}
               /\ store[t.id].status # "published"
         /\ outcome = "Conflict" => store[t.id].status \notin Editable
         /\ IF outcome = "ok"
            THEN /\ store' = [store EXCEPT ![t.id].status = t.status]
                 /\ tasks' = [tasks EXCEPT ![s].pc = "resp", ![s].ok = TRUE]
            ELSE /\ tasks' = [tasks EXCEPT ![s].pc = "resp", ![s].ok = FALSE,
                                            ![s].err = outcome]
                 /\ UNCHANGED store
    /\ UNCHANGED <<posts, postHistory, currentPushId, isLoading,
                   backendConnected, notificationVars, loadPc>>
    /\ RecordShown
    /\ UNCHANGED <<tone, socialVars, adapter, mediaVars>>

\* mutant of RejectResponse: the local update is not skipped on failure
RejectResponseIgnoringFailure(s) ==
    LET t == tasks[s] IN
    /\ t.op = "reject" /\ t.pc = "resp"
    /\ posts' = SetStatus(posts, t.id, "disapproved")
    /\ postHistory' = SetHistoryStatus(postHistory, t.id, "disapproved")
    /\ ShowNotification(IF t.ok THEN "Post disapproved" ELSE "Error updating post status")
    /\ tasks' = [tasks EXCEPT ![s] = NoTask]
    /\ UNCHANGED <<store, currentPushId, isLoading, backendConnected, loadPc>>
    /\ RecordShown
    /\ UNCHANGED <<tone, socialVars, adapter, mediaVars>>

\* updatePostStatus(id, 'disapproved') after its await
RejectResponse(s) ==
    LET t == tasks[s] IN
    /\ t.op = "reject" /\ t.pc = "resp"
    /\ IF t.ok
       THEN /\ posts' = SetStatus(posts, t.id, "disapproved")
            /\ postHistory' = SetHistoryStatus(postHistory, t.id, "disapproved")
            /\ ShowNotification("Post disapproved")
       ELSE /\ ShowNotification("Error updating post status")
            /\ UNCHANGED <<posts, postHistory>>
    /\ tasks' = [tasks EXCEPT ![s] = NoTask]
    /\ UNCHANGED <<store, currentPushId, isLoading, backendConnected, loadPc>>
    /\ RecordShown
    /\ UNCHANGED <<tone, socialVars, adapter, mediaVars>>

\* -------------------------------------------------------------------- edit
\* PostCard: the textarea, disabled unless post.status is 'pending'
EditEnabled(p) == p.status = "pending"

\* onContentChange up to its await updateContentText(id, newContent)
IssueEdit ==
    /\ FreeSlots # {}
    /\ \E p \in PostsOf(CurrentPosts), newContent \in Texts :
         /\ EditEnabled(p)
         /\ newContent # p.content
         /\ tasks' = [tasks EXCEPT ![LeastFree(1)] =
                        [NewTask("edit", p.id) EXCEPT !.arg = newContent]]
    /\ UNCHANGED <<store, posts, postHistory, currentPushId, isLoading,
                   backendConnected, notificationVars, loadPc>>
    /\ RecordShown
    /\ UNCHANGED <<tone, socialVars, adapter, mediaVars>>

\* PATCH /content/{id} (updateText): Conflict unless the status is editable
BackendEdit(s) ==
    LET t == tasks[s] IN
    /\ t.op = "edit" /\ t.pc = "sent"
    /\ IF store[t.id].status \in Editable
       THEN \E outcome \in {"ok", "TransportError"} :
              IF outcome = "ok"
              THEN /\ store' = [store EXCEPT ![t.id].content = t.arg]
                   /\ tasks' = [tasks EXCEPT ![s].pc = "resp", ![s].ok = TRUE]
              ELSE /\ tasks' = [tasks EXCEPT ![s].pc = "resp", ![s].ok = FALSE,
                                              ![s].err = outcome]
                   /\ UNCHANGED store
       ELSE /\ tasks' = [tasks EXCEPT ![s].pc = "resp", ![s].ok = FALSE,
                                       ![s].err = "Conflict"]
            /\ UNCHANGED store
    /\ UNCHANGED <<posts, postHistory, currentPushId, isLoading,
                   backendConnected, notificationVars, loadPc>>
    /\ RecordShown
    /\ UNCHANGED <<tone, socialVars, adapter, mediaVars>>

\* mutant of EditResponse: the typed text is applied whatever the outcome
EditResponseIgnoringFailure(s) ==
    LET t == tasks[s] IN
    /\ t.op = "edit" /\ t.pc = "resp"
    /\ posts' = SetContent(posts, t.id, t.arg)
    /\ tasks' = [tasks EXCEPT ![s] = NoTask]
    /\ UNCHANGED <<store, postHistory, currentPushId, isLoading,
                   backendConnected, notificationVars, loadPc>>
    /\ RecordShown
    /\ UNCHANGED <<tone, socialVars, adapter, mediaVars>>

\* onContentChange after its await: setPosts only, or the catch block
EditResponse(s) ==
    LET t == tasks[s] IN
    /\ t.op = "edit" /\ t.pc = "resp"
    /\ IF t.ok
       THEN posts' = SetContent(posts, t.id, t.arg)
       ELSE UNCHANGED posts
    /\ tasks' = [tasks EXCEPT ![s] = NoTask]
    /\ UNCHANGED <<store, postHistory, currentPushId, isLoading,
                   backendConnected, notificationVars, loadPc>>
    /\ RecordShown
    /\ UNCHANGED <<tone, socialVars, adapter, mediaVars>>

\* ---------------------------------------------------------------- rephrase
\* mutant of RephraseEnabled: the Rephrase button is never disabled
RephraseAlwaysEnabled(p) == TRUE

\* PostCard: the Rephrase button, disabled while isLoading
RephraseEnabled(p) == ~isLoading[p.id]

\* posts.find(p => p.id === postId)
FindPost(seq, postId) == {q \in PostsOf(seq) : q.id = postId}

\* rephrasePost up to its first await: rephraseContent(postId, tone) when the
\* backend is connected, else rephraseWithMCP(currentPost.content, tone)
IssueRephrase ==
    /\ FreeSlots # {}
    /\ \E p \in PostsOf(CurrentPosts) :
         /\ RephraseEnabled(p)
         /\ IF backendConnected
            THEN /\ tasks' = [tasks EXCEPT ![LeastFree(1)] =
                               [NewTask("rephrase", p.id) EXCEPT
                                   !.via = "backend", !.push = currentPushId,
                                   !.tone = NormalizedTone(tone)]]
                 /\ isLoading' = [isLoading EXCEPT ![p.id] = TRUE]
            ELSE IF FindPost(posts, p.id) # {}
            THEN /\ tasks' = [tasks EXCEPT ![LeastFree(1)] =
                               [NewTask("rephrase", p.id) EXCEPT
                                   !.via = "mcp", !.tone = NormalizedTone(tone),
                                   !.arg = (CHOOSE q \in FindPost(posts, p.id) : TRUE).content]]
                 /\ isLoading' = [isLoading EXCEPT ![p.id] = TRUE]
            ELSE UNCHANGED <<tasks, isLoading>>
    /\ UNCHANGED <<store, posts, postHistory, currentPushId,
                   backendConnected, notificationVars, loadPc>>
    /\ RecordShown
    /\ UNCHANGED <<tone, socialVars, adapter, mediaVars>>

\* POST /content/{id}/rephrase: Conflict on a terminal item; else the Rephrase
\* Service returns a text, stored with status rephrased, or fails.  The MCP
\* fallback only returns a text or fails.
BackendRephrase(s) ==
    LET t == tasks[s] IN
    /\ t.op = "rephrase" /\ t.pc = "sent"
    /\ IF t.via = "backend" /\ store[t.id].status \notin Editable
       THEN /\ tasks' = [tasks EXCEPT ![s].pc = "resp", ![s].ok = FALSE,
                                       ![s].err = "Conflict"]
            /\ UNCHANGED store
       ELSE \E text \in Texts \cup {0} :
              IF text = 0
              THEN /\ tasks' = [tasks EXCEPT ![s].pc = "resp", ![s].ok = FALSE,
                                              ![s].err = "ProviderUnavailable"]
                   /\ UNCHANGED store
              ELSE /\ tasks' = [tasks EXCEPT ![s].pc = "resp", ![s].ok = TRUE,
                                              ![s].arg = text]
                   /\ IF t.via = "backend"
                      THEN store' = [store EXCEPT ![t.id].content = text,
                                                  ![t.id].status = "rephrased"]
                      ELSE UNCHANGED store
    /\ UNCHANGED <<posts, postHistory, currentPushId, isLoading,
                   backendConnected, notificationVars, loadPc>>
    /\ RecordShown
    /\ UNCHANGED <<tone, socialVars, adapter, mediaVars>>

\* mutant of RephraseResponse: a failed call goes on to the refresh as well
RephraseResponseIgnoringFailure(s) ==
    LET t == tasks[s] IN
    /\ t.op = "rephrase" /\ t.pc = "resp"
    /\ IF t.via = "backend"
       THEN /\ tasks' = [tasks EXCEPT ![s].pc = "refreshSent"]
            /\ UNCHANGED <<posts, postHistory, isLoading, notificationVars>>
       ELSE /\ posts' = SetContent(posts, t.id, t.arg)
            /\ postHistory' = SetHistoryContent(postHistory, t.id, t.arg)
            /\ ShowNotification("Post rephrased successfully (via MCP fallback)")
            /\ isLoading' = [isLoading EXCEPT ![t.id] = FALSE]
            /\ tasks' = [tasks EXCEPT ![s] = NoTask]
    /\ UNCHANGED <<store, currentPushId, backendConnected, loadPc>>
    /\ RecordShown
    /\ UNCHANGED <<tone, socialVars, adapter, mediaVars>>

\* rephrasePost after its first await: on success the backend path goes on
\* to refreshContentFromBackend and the MCP path updates posts and history;
\* on failure the catch block and finally
RephraseResponse(s) ==
    LET t == tasks[s] IN
    /\ t.op = "rephrase" /\ t.pc = "resp"
    /\ IF ~t.ok
       THEN /\ ShowNotification("Error rephrasing post")
            /\ isLoading' = [isLoading EXCEPT ![t.id] = FALSE]
            /\ tasks' = [tasks EXCEPT ![s] = NoTask]
            /\ UNCHANGED <<posts, postHistory>>
       ELSE IF t.via = "backend"
       THEN /\ tasks' = [tasks EXCEPT ![s].pc = "refreshSent"]
            /\ UNCHANGED <<posts, postHistory, isLoading, notificationVars>>
       ELSE /\ posts' = SetContent(posts, t.id, t.arg)
            /\ postHistory' = SetHistoryContent(postHistory, t.id, t.arg)
            /\ ShowNotification("Post rephrased successfully (via MCP fallback)")
            /\ isLoading' = [isLoading EXCEPT ![t.id] = FALSE]
            /\ tasks' = [tasks EXCEPT ![s] = NoTask]
    /\ UNCHANGED <<store, currentPushId, backendConnected, loadPc>>
    /\ RecordShown
    /\ UNCHANGED <<tone, socialVars, adapter, mediaVars>>

\* GET /content for refreshContentFromBackend: the items as they are now
BackendList(s) ==
    LET t == tasks[s] IN
    /\ t.op = "rephrase" /\ t.pc = "refreshSent"
    /\ \E fetched \in BOOLEAN :
         tasks' = [tasks EXCEPT ![s].pc = "refreshResp", ![s].ok = fetched,
                                ![s].items = IF fetched THEN ContentItems ELSE <<>>]
    /\ UNCHANGED <<store, posts, postHistory, currentPushId, isLoading,
                   backendConnected, notificationVars, loadPc>>
    /\ RecordShown
    /\ UNCHANGED <<tone, socialVars, adapter, mediaVars>>

\* refreshContentFromBackend after its await (its own catch swallows a failed
\* fetch), then the rest of rephrasePost: the notification and finally
RefreshResponse(s) ==
    LET t == tasks[s]
        newPushes == NewPushes(t.items)
        k == FindPush(newPushes, t.push, 1)
    IN
    /\ t.op = "rephrase" /\ t.pc = "refreshResp"
    /\ IF t.ok
       THEN /\ postHistory' = newPushes
            /\ IF t.push # Null /\ k # 0
               THEN posts' = newPushes[k].posts
               ELSE UNCHANGED posts
       ELSE UNCHANGED <<posts, postHistory>>
    /\ ShowNotification("Post rephrased successfully!")
    /\ isLoading' = [isLoading EXCEPT ![t.id] = FALSE]
    /\ tasks' = [tasks EXCEPT ![s] = NoTask]
    /\ UNCHANGED <<store, currentPushId, backendConnected, loadPc>>
    /\ RecordShown
    /\ UNCHANGED <<tone, socialVars, adapter, mediaVars>>

\* -------------------------------------------------------------- tone slider
\* Header: onChange of the range input, onToneChange(Number(event.target.value))
SetTone ==
    /\ \E t \in Tones : t # tone /\ tone' = t
    /\ UNCHANGED <<appVars, socialVars, adapter, mediaVars>>

\* ---------------------------------------------------------- platform adapter
\* publish(text, media, credentials) is called with a text of some length
AdapterCall ==
    /\ adapter.pc = "idle"
    /\ \E platform \in Platforms, len \in Lengths :
         adapter' = [adapter EXCEPT !.pc = "called", !.platform = platform, !.len = len]
    /\ UNCHANGED <<appVars, tone, socialVars, mediaVars>>

\* the adapter validates the length before it submits anything; a valid text
\* is submitted once and the platform accepts it or the call fails
AdapterPublish ==
    /\ adapter.pc = "called"
    /\ IF ~ValidLength(adapter.platform, adapter.len)
       THEN adapter' = [adapter EXCEPT !.pc = "done", !.result = "ValidationError"]
       ELSE \E result \in {"ok"} \cup AdapterErrorKinds :
              adapter' = [adapter EXCEPT
                             !.pc = "done", !.result = result,
                             !.created = IF result = "ok" THEN @ + 1 ELSE @]
    /\ UNCHANGED <<appVars, tone, socialVars, mediaVars>>

\* the caller has taken the result
AdapterReturn ==
    /\ adapter.pc = "done"
    /\ adapter' = NoCall
    /\ UNCHANGED <<appVars, tone, socialVars, mediaVars>>

\* ------------------------------------------------------ social credentials
\* the App state the credential handlers leave alone
appVarsButNotification ==
    <<store, posts, postHistory, currentPushId, isLoading, backendConnected,
      loadPc, tasks, shownPosted>>

FreeSocialSlots == {s \in SocialSlots : socialTasks[s].op = "none"}

RECURSIVE LeastFreeSocial(_)
LeastFreeSocial(s) == IF socialTasks[s].op = "none" THEN s ELSE LeastFreeSocial(s + 1)

\* Header: the Social Credentials button, setIsSocialModalOpen(true); the
\* modal's effect on [isOpen, values] then resets the form to the values
OpenSocialSettings ==
    /\ ~isSocialModalOpen
    /\ isSocialModalOpen' = TRUE
    /\ formValues' = socialValues
    /\ UNCHANGED <<appVars, tone, adapter, mediaVars, socialValues, socialStatus, isSyncing,
                   socialError, localStorage, isSaving, isClearing,
                   backendSecrets, socialTasks>>

\* SocialEnvModal: Close, or a click on the backdrop
CloseSocialModal ==
    /\ isSocialModalOpen
    /\ isSocialModalOpen' = FALSE
    /\ UNCHANGED <<appVars, tone, adapter, mediaVars, socialValues, socialStatus, isSyncing,
                   socialError, localStorage, formValues, isSaving, isClearing,
                   backendSecrets, socialTasks>>

\* SocialEnvModal: handleInputChange(key), a field of the form is typed into
InputChange ==
    /\ isSocialModalOpen
    /\ \E key \in TypedFields :
         \E value \in Typed(key) :
            /\ value # formValues[key]
            /\ formValues' = [formValues EXCEPT ![key] = value]
    /\ UNCHANGED <<appVars, tone, adapter, mediaVars, socialValues, socialStatus, isSyncing,
                   socialError, localStorage, isSaving, isClearing,
                   isSocialModalOpen, backendSecrets, socialTasks>>

\* mutant of SaveEnabled: isSyncing does not disable the Save button
SaveEnabledWhileSyncing == ~isSaving

\* SocialEnvModal: the buttons' disabled attributes
SaveEnabled == ~(isSaving \/ isSyncing)
ClearEnabled == ~(isClearing \/ isSyncing)

\* handleSave -> handleSaveSocialEnv -> saveValues, up to its await
\* saveSocialEnvSecrets(nextValues)
HandleSave ==
    /\ isSocialModalOpen
    /\ SaveEnabled
    /\ FreeSocialSlots # {}
    /\ isSaving' = TRUE
    /\ isSyncing' = TRUE
    /\ socialTasks' = [socialTasks EXCEPT ![LeastFreeSocial(1)] =
                          [NoSocialTask EXCEPT
                              !.op = "save", !.pc = "sent", !.values = formValues,
                              !.payload = toSocialEnvApiPayload(formValues)]]
    /\ UNCHANGED <<appVars, tone, adapter, mediaVars, socialValues, socialStatus, socialError,
                   localStorage, formValues, isClearing, isSocialModalOpen,
                   backendSecrets>>

\* handleClear -> handleClearSocialEnv -> clearValues, up to its await
\* clearSocialEnvSecrets()
HandleClear ==
    /\ isSocialModalOpen
    /\ ClearEnabled
    /\ FreeSocialSlots # {}
    /\ isClearing' = TRUE
    /\ isSyncing' = TRUE
    /\ socialTasks' = [socialTasks EXCEPT ![LeastFreeSocial(1)] =
                          [NoSocialTask EXCEPT !.op = "clear", !.pc = "sent"]]
    /\ UNCHANGED <<appVars, tone, adapter, mediaVars, socialValues, socialStatus, socialError,
                   localStorage, formValues, isSaving, isSocialModalOpen,
                   backendSecrets>>

\* POST /social-env persists the fields and re-reports the status, DELETE
\* /social-env clears all, GET /social-env/status reports; or the call fails
BackendSocial(s) ==
    LET t == socialTasks[s] IN
    /\ t.op # "none" /\ t.pc = "sent"
    /\ \E ok \in BOOLEAN, reported \in BOOLEAN :
         LET secrets == IF ~ok \/ t.op = "status" THEN backendSecrets
                        ELSE IF t.op = "save" THEN t.payload
                        ELSE [k \in ApiKeys |-> ""]
         IN  /\ backendSecrets' = secrets
             /\ ~ok => reported
             /\ socialTasks' = [socialTasks EXCEPT
                                   ![s].pc = "resp", ![s].ok = ok,
                                   ![s].status = IF ok /\ reported THEN StatusOf(secrets)
                                                 ELSE Missing]
    /\ UNCHANGED <<appVars, tone, adapter, mediaVars, socialValues, socialStatus, isSyncing,
                   socialError, localStorage, formValues, isSaving, isClearing,
                   isSocialModalOpen>>

\* App: the effect on [socialEnvError] shows a new error; the modal's own
\* onNotify(msg) runs before or after it
NotifyFailure(newError, msg) ==
    IF newError # socialError
    THEN \E last \in {newError, msg} :
            /\ notification' = last
            /\ messageTimeoutRef' = NextTimer(NextTimer(messageTimeoutRef))
            /\ timers' = (timers \ {messageTimeoutRef})
                             \cup {NextTimer(NextTimer(messageTimeoutRef))}
    ELSE ShowNotification(msg)

\* refreshStatus after its await
StatusResponse(s) ==
    LET t == socialTasks[s] IN
    /\ t.op = "status" /\ t.pc = "resp"
    /\ IF t.ok
       THEN /\ socialStatus' = StatusOrEmpty(t.status)
            /\ socialError' = NoError
            /\ UNCHANGED notificationVars
       ELSE /\ socialError' = "Unable to load social credential status from backend."
            /\ IF socialError' # socialError
               THEN ShowNotification(socialError')
               ELSE UNCHANGED notificationVars
            /\ UNCHANGED socialStatus
    /\ socialTasks' = [socialTasks EXCEPT ![s] = NoSocialTask]
    /\ UNCHANGED <<appVarsButNotification, tone, adapter, mediaVars, socialValues, isSyncing,
                   localStorage, formValues, isSaving, isClearing,
                   isSocialModalOpen, backendSecrets>>

\* saveValues after its await, then the rest of handleSave.  A successful
\* response: setValues, persistToStorage (setItem may throw, which lands in
\* the catch block with the values already set), setStatus, setError(null).
\* The modal's effect resets the form when it is open and the values are
\* another object than before: always when the contents differ; with equal
\* contents both happen (handleInputChange makes a new object on every
\* change, an untouched form is the values object itself).
SaveSucceeded(s, persisted) ==
    LET t == socialTasks[s] IN
    /\ socialValues' = t.values
    /\ \E reset \in {t.values # socialValues, TRUE} :
         formValues' = IF isSocialModalOpen /\ reset THEN t.values ELSE formValues
    /\ IF persisted
       THEN /\ localStorage' = JSONStringify(t.values)
            /\ socialStatus' = StatusOrEmpty(t.status)
            /\ socialError' = NoError
            /\ ShowNotification("Social credentials synced with backend.")
       ELSE /\ socialError' = "Failed to persist social credentials to backend."
            /\ NotifyFailure(socialError', "Could not save credentials. Try again.")
            /\ UNCHANGED <<localStorage, socialStatus>>

\* the catch block of saveValues and of handleSave
SaveFailed ==
    /\ socialError' = "Failed to persist social credentials to backend."
    /\ NotifyFailure(socialError', "Could not save credentials. Try again.")
    /\ UNCHANGED <<socialValues, formValues, localStorage, socialStatus>>

\* mutant of SaveResponse: the values are set but not written to local storage
SaveResponseNotPersisted(s) ==
    LET t == socialTasks[s] IN
    /\ t.op = "save" /\ t.pc = "resp"
    /\ IF t.ok
       THEN /\ socialValues' = t.values
            /\ \E reset \in {t.values # socialValues, TRUE} :
                 formValues' = IF isSocialModalOpen /\ reset
                               THEN t.values ELSE formValues
            /\ socialStatus' = StatusOrEmpty(t.status)
            /\ socialError' = NoError
            /\ ShowNotification("Social credentials synced with backend.")
            /\ UNCHANGED localStorage
       ELSE SaveFailed
    /\ isSyncing' = FALSE
    /\ isSaving' = FALSE
    /\ socialTasks' = [socialTasks EXCEPT ![s] = NoSocialTask]
    /\ UNCHANGED <<appVarsButNotification, tone, adapter, mediaVars, isClearing,
                   isSocialModalOpen, backendSecrets>>

SaveResponse(s) ==
    LET t == socialTasks[s] IN
    /\ t.op = "save" /\ t.pc = "resp"
    /\ IF t.ok
       THEN \E persisted \in BOOLEAN : SaveSucceeded(s, persisted)
       ELSE SaveFailed
    /\ isSyncing' = FALSE
    /\ isSaving' = FALSE
    /\ socialTasks' = [socialTasks EXCEPT ![s] = NoSocialTask]
    /\ UNCHANGED <<appVarsButNotification, tone, adapter, mediaVars, isClearing,
                   isSocialModalOpen, backendSecrets>>

\* mutant of ClearResponse: the form is reset to the defaults after a failed
\* clear too
ClearResponseResetsForm(s) ==
    LET t == socialTasks[s] IN
    /\ t.op = "clear" /\ t.pc = "resp"
    /\ IF t.ok
       THEN /\ socialValues' = defaultSocialEnvValues
            /\ localStorage' = Absent
            /\ socialStatus' = StatusOrEmpty(t.status)
            /\ socialError' = NoError
            /\ formValues' = defaultSocialEnvValues
            /\ ShowNotification("Cleared social credentials from backend.")
       ELSE /\ socialError' = "Unable to clear social credentials on backend."
            /\ NotifyFailure(socialError', "Could not clear credentials. Try again.")
            /\ formValues' = defaultSocialEnvValues
            /\ UNCHANGED <<socialValues, localStorage, socialStatus>>
    /\ isSyncing' = FALSE
    /\ isClearing' = FALSE
    /\ socialTasks' = [socialTasks EXCEPT ![s] = NoSocialTask]
    /\ UNCHANGED <<appVarsButNotification, tone, adapter, mediaVars, isSaving,
                   isSocialModalOpen, backendSecrets>>

\* clearValues after its await, then the rest of handleClear
ClearResponse(s) ==
    LET t == socialTasks[s] IN
    /\ t.op = "clear" /\ t.pc = "resp"
    /\ IF t.ok
       THEN /\ socialValues' = defaultSocialEnvValues
            /\ localStorage' = Absent
            /\ socialStatus' = StatusOrEmpty(t.status)
            /\ socialError' = NoError
            /\ formValues' = defaultSocialEnvValues
            /\ ShowNotification("Cleared social credentials from backend.")
       ELSE /\ socialError' = "Unable to clear social credentials on backend."
            /\ NotifyFailure(socialError', "Could not clear credentials. Try again.")
            /\ UNCHANGED <<socialValues, formValues, localStorage, socialStatus>>
    /\ isSyncing' = FALSE
    /\ isClearing' = FALSE
    /\ socialTasks' = [socialTasks EXCEPT ![s] = NoSocialTask]
    /\ UNCHANGED <<appVarsButNotification, tone, adapter, mediaVars, isSaving,
                   isSocialModalOpen, backendSecrets>>

\* ------------------------------------------------------------ specification
Next ==
    \/ LoadContentFromBackend
    \/ LoadLatestPush
    \/ LoadPush
    \/ NotificationTimeout
    \/ IssueApprove
    \/ IssueReject
    \/ IssueEdit
    \/ IssueRephrase
    \/ \E s \in Slots : BackendApprove(s)
    \/ \E s \in Slots : BackendReject(s)
    \/ \E s \in Slots : BackendEdit(s)
    \/ \E s \in Slots : BackendRephrase(s)
    \/ \E s \in Slots : BackendList(s)
    \/ \E s \in Slots : ApproveResponse(s)
    \/ \E s \in Slots : RejectResponse(s)
    \/ \E s \in Slots : EditResponse(s)
    \/ \E s \in Slots : RephraseResponse(s)
    \/ \E s \in Slots : RefreshResponse(s)

Spec == Init /\ [][Next]_vars

\* the slider and the rephrase of the loaded posts
ToneNext ==
    \/ LoadContentFromBackend
    \/ LoadLatestPush
    \/ SetTone
    \/ IssueRephrase
    \/ \E s \in Slots : BackendRephrase(s)
    \/ \E s \in Slots : RephraseResponse(s)
    \/ \E s \in Slots : BackendList(s)
    \/ \E s \in Slots : RefreshResponse(s)

ToneSpec == Init /\ [][ToneNext]_vars

\* the publish calls of a Platform Adapter
AdapterNext ==
    \/ AdapterCall
    \/ AdapterPublish
    \/ AdapterReturn

AdapterSpec == Init /\ [][AdapterNext]_vars

\* what local storage may hold when the page is opened: nothing, a text that
\* does not parse, or an object with some of the fields
StorageEntries ==
    {Absent, Corrupt,
     JSONStringify([f \in {"twitterApiKey"} |-> "secret"]),
     JSONStringify([f \in TypedFields |-> "secret"])}

SocialInit ==
    /\ store = [i \in Items |-> InitItem("pending")]
    /\ AppStart
    /\ localStorage \in StorageEntries
    /\ backendSecrets = [k \in ApiKeys |-> ""]
    /\ SocialStart
    /\ adapter = NoCall
    /\ MediaStart

\* the credentials modal and the useSocialEnv hook
SocialNext ==
    \/ OpenSocialSettings
    \/ CloseSocialModal
    \/ InputChange
    \/ HandleSave
    \/ HandleClear
    \/ \E s \in SocialSlots : BackendSocial(s)
    \/ \E s \in SocialSlots : StatusResponse(s)
    \/ \E s \in SocialSlots : SaveResponse(s)
    \/ \E s \in SocialSlots : ClearResponse(s)

SocialSpec == SocialInit /\ [][SocialNext]_vars

\* typing credentials into the form and saving them
SaveNext ==
    \/ OpenSocialSettings
    \/ InputChange
    \/ HandleSave
    \/ \E s \in SocialSlots : BackendSocial(s)
    \/ \E s \in SocialSlots : StatusResponse(s)
    \/ \E s \in SocialSlots : SaveResponse(s)

SaveSpec == SocialInit /\ [][SaveNext]_vars

\* convertContentItemToPost applied to the item fetched
ConvertItem ==
    /\ ~postMedia.done
    /\ postMedia' = [done |-> TRUE, media |-> ConvertMedia(mediaItem)]
    /\ UNCHANGED <<appVars, tone, socialVars, adapter, mediaItem>>

\* the page is loaded again: the item is to be fetched and converted anew
Reload ==
    /\ postMedia.done
    /\ postMedia' = NotConverted
    /\ UNCHANGED <<appVars, tone, socialVars, adapter, mediaItem>>

\* the backend holds an item with any media fields
MediaInit ==
    /\ store = [i \in Items |-> InitItem("pending")]
    /\ AppStart
    /\ localStorage = Absent
    /\ backendSecrets = [k \in ApiKeys |-> ""]
    /\ SocialStart
    /\ adapter = NoCall
    /\ mediaItem \in [image_content : MediaFields(MediaRefs),
                       video_content : MediaFields(MediaRefs),
                       audio_content : MediaFields(MediaRefs),
                       media : MediaFields(LegacyEntries)]
    /\ postMedia = NotConverted

MediaNext ==
    \/ ConvertItem
    \/ Reload

MediaSpec == MediaInit /\ [][MediaNext]_vars

\* loading the content and approving or rejecting it, nothing else
ReviewNext ==
    \/ LoadContentFromBackend
    \/ LoadLatestPush
    \/ IssueApprove
    \/ IssueReject
    \/ \E s \in Slots : BackendApprove(s)
    \/ \E s \in Slots : BackendReject(s)
    \/ \E s \in Slots : ApproveResponse(s)
    \/ \E s \in Slots : RejectResponse(s)

ReviewSpec == Init /\ [][ReviewNext]_vars

\* loading the content and editing it in the textarea, nothing else
EditNext ==
    \/ LoadContentFromBackend
    \/ LoadLatestPush
    \/ IssueEdit
    \/ \E s \in Slots : BackendEdit(s)
    \/ \E s \in Slots : EditResponse(s)

EditSpec == Init /\ [][EditNext]_vars

\* the backend holds the five content items of the provenance table
GroupInit ==
    /\ store \in [GroupItems -> {InitItem(st) : st \in BackendStatuses}]
    /\ AppStart
    /\ localStorage = Absent
    /\ backendSecrets = [k \in ApiKeys |-> ""]
    /\ SocialStart
    /\ adapter = NoCall
    /\ MediaStart

\* loading the content and selecting pushes in the sidebar
GroupNext ==
    \/ LoadContentFromBackend
    \/ LoadLatestPush
    \/ LoadPush

GroupSpec == GroupInit /\ [][GroupNext]_vars

\* the item under review, in the latest push together with item 4
ReviewedItem == 3

\* the backend holds the five items of the provenance table; one of the latest
\* push is pending, the others are rejected or published
MultiInit ==
    /\ store \in [GroupItems -> {InitItem(st) : st \in {"pending"} \cup Terminal}]
    /\ \A i \in GroupItems : store[i].status = "pending" <=> i = ReviewedItem
    /\ AppStart
    /\ localStorage = Absent
    /\ backendSecrets = [k \in ApiKeys |-> ""]
    /\ SocialStart
    /\ adapter = NoCall
    /\ MediaStart

\* approving, rejecting and editing the posts of the latest push
MultiNext ==
    \/ LoadContentFromBackend
    \/ LoadLatestPush
    \/ IssueApprove
    \/ IssueReject
    \/ IssueEdit
    \/ \E s \in Slots : BackendApprove(s)
    \/ \E s \in Slots : BackendReject(s)
    \/ \E s \in Slots : BackendEdit(s)
    \/ \E s \in Slots : ApproveResponse(s)
    \/ \E s \in Slots : RejectResponse(s)
    \/ \E s \in Slots : EditResponse(s)

MultiSpec == MultiInit /\ [][MultiNext]_vars

\* selecting pushes and rephrasing their posts, with the refresh that follows
SelectNext ==
    \/ LoadContentFromBackend
    \/ LoadLatestPush
    \/ SelectPush
    \/ IssueRephrase
    \/ \E s \in Slots : BackendRephrase(s)
    \/ \E s \in Slots : RephraseResponse(s)
    \/ \E s \in Slots : BackendList(s)
    \/ \E s \in Slots : RefreshResponse(s)

\* one item of the latest push is pending, the others are published
SelectInit ==
    /\ MultiInit
    /\ \A i \in GroupItems : i # ReviewedItem => store[i].status = "published"

SelectSpec == SelectInit /\ [][SelectNext]_vars

\* approving and rejecting with the timeouts of the notifications; a pending
\* timeout expires unless it is cleared
NotifyNext ==
    \/ LoadContentFromBackend
    \/ LoadLatestPush
    \/ NotificationTimeout
    \/ IssueApprove
    \/ IssueReject
    \/ \E s \in Slots : BackendApprove(s)
    \/ \E s \in Slots : BackendReject(s)
    \/ \E s \in Slots : ApproveResponse(s)
    \/ \E s \in Slots : RejectResponse(s)

NotifySpec ==
    /\ Init
    /\ [][NotifyNext]_vars
    /\ \A id \in TimerIds : WF_vars(TimerFires(id))

TypeOK ==
    /\ \A i \in Items : store[i].status \in BackendStatuses
    /\ \A p \in PostsOf(posts) \cup HistoryPosts :
          p.status \in {"pending", "disapproved", "posted"}

\* ------------------------------------------------------- steps of a handler
\* a handler invocation for item i starts in this step
Issued(op, i) ==
    \E s \in Slots : tasks[s].op = "none" /\ tasks'[s].op = op /\ tasks'[s].id = i

\* the backend handles the request of the invocation in slot s in this step
Handled(op, s) ==
    tasks[s].op = op /\ tasks[s].pc = "sent" /\ tasks'[s].pc = "resp"

\* the response of the invocation in slot s is delivered in this step
Delivered(op, s) ==
    tasks[s].op = op /\ tasks[s].pc = "resp" /\ tasks'[s].pc # "resp"

\* the refresh of the invocation in slot s is applied in this step
Refreshed(s) ==
    tasks[s].op = "rephrase" /\ tasks[s].pc = "refreshResp" /\ tasks'[s].op = "none"

\* ------------------------------------------------------------------ claims
\* C1: once an item is published in the store and has been shown as
\* 'posted', no step issues another approve-and-post request for it.
C1_NoApproveAfterPosted ==
    [][\A i \in Items :
         (store[i].status = "published" /\ i \in shownPosted)
            => ~Issued("approve", i)]_vars

\* the statuses / contents the UI holds for item i, in posts and in the history
UiPosts(i) == {p \in PostsOf(posts) \cup HistoryPosts : p.id = i}

\* the same after the step
UiPostsNext(i) == {p \in PostsOf(posts') \cup HistoryPosts' : p.id = i}

TerminalShown == {"disapproved", "posted"}

\* C2: once an item is shown as 'disapproved' or 'posted', no step makes the
\* status shown for it 'pending' again.
C2_NoReturnToPending ==
    [][\A i \in Items :
         (\E p \in Shown(i) : p.status \in TerminalShown)
            => (\A q \in Shown(i)' : q.status # "pending")]_vars

\* no Post of `before` that keeps its terminal status has another content in `after`
Frozen(before, after) ==
    \A p \in before, q \in after :
        (q.id = p.id /\ p.status \in TerminalShown /\ q.status = p.status)
            => q.content = p.content

\* C3: while an item keeps a status of approved, rejected or published (shown
\* as 'disapproved' or 'posted'), its content does not change: neither in
\* the store, nor in posts, nor in the push history.
C3_ContentFrozen ==
    [][/\ \A i \in Items :
            (store[i].status \in {"approved", "rejected", "published"}
               /\ store'[i].status = store[i].status)
              => store'[i].content = store[i].content
       /\ Frozen(PostsOf(posts), PostsOf(posts)')
       /\ Frozen(HistoryPosts, HistoryPosts')]_vars

\* the UI state of the posts: posts and the push history
UiUnchanged == posts' = posts /\ postHistory' = postHistory

\* C4: an edit or rephrase request that reaches the backend when the item is
\* published or rejected is answered with Conflict and changes nothing in the
\* store; when that answer is delivered the UI changes neither posts nor the
\* history and starts no refresh; a rephrase shows the error message and an
\* edit shows nothing new.
C4_TerminalEditRephraseConflict ==
    [][\A s \in Slots :
         /\ ((Handled("edit", s) \/ (Handled("rephrase", s) /\ tasks[s].via = "backend"))
                /\ store[tasks[s].id].status \in Terminal)
               => /\ store' = store
                  /\ ~tasks'[s].ok
                  /\ tasks'[s].err = "Conflict"
         /\ ((Delivered("edit", s) \/ Delivered("rephrase", s))
                /\ ~tasks[s].ok /\ tasks[s].err = "Conflict")
               => /\ UiUnchanged
                  /\ tasks'[s] = NoTask
                  /\ notification' = IF tasks[s].op = "edit" THEN notification
                                      ELSE "Error rephrasing post"]_vars

\* C4 witness: the answer Conflict to an edit or rephrase of a terminal item
C4_Witness ==
    \E s \in Slots :
        /\ tasks[s].op \in {"edit", "rephrase"}
        /\ tasks[s].pc = "resp"
        /\ tasks[s].err = "Conflict"
        /\ store[tasks[s].id].status \in Terminal

\* the contents the store and the UI hold do not change in this step
ContentUnchanged ==
    /\ \A i \in Items : store'[i].content = store[i].content
    /\ \A i \in Items :
          /\ {p.content : p \in {q \in PostsOf(posts) : q.id = i}}
                = {p.content : p \in {q \in PostsOf(posts)' : q.id = i}}
          /\ {p.content : p \in {q \in HistoryPosts : q.id = i}}
                = {p.content : p \in {q \in HistoryPosts' : q.id = i}}

\* C5: a rephrase or approve call that fails changes no content: not when the
\* backend refuses or fails it, not when the failure is delivered to the UI
\* (which ends the handler without a refresh).
C5_FailedCallKeepsContent ==
    [][\A s \in Slots :
         /\ ((Handled("rephrase", s) \/ Handled("approve", s)) /\ ~tasks'[s].ok)
               => ContentUnchanged
         /\ ((Delivered("rephrase", s) \/ Delivered("approve", s)) /\ ~tasks[s].ok)
               => ContentUnchanged /\ tasks'[s] = NoTask]_vars

\* C5 witness: a failed rephrase is being delivered while the store holds a
\* text the history does not show yet
C5_Witness ==
    \E s \in Slots :
        /\ tasks[s].op = "rephrase" /\ tasks[s].pc = "resp" /\ ~tasks[s].ok
        /\ \E p \in HistoryPosts :
              p.id = tasks[s].id /\ p.content # store[p.id].content

C7_FailedRejectEditKeepsItem ==
    [][\A s \in Slots :
         /\ ((Handled("reject", s) \/ Handled("edit", s)) /\ ~tasks'[s].ok)
               => store' = store
         /\ ((Delivered("reject", s) \/ Delivered("edit", s)) /\ ~tasks[s].ok)
               => UiUnchanged]_vars

\* C7 witness: a store failure of a reject of a pending item awaits delivery
C7_Witness ==
    \E s \in Slots :
        /\ tasks[s].op = "reject" /\ tasks[s].pc = "resp"
        /\ tasks[s].err = "TransportError"
        /\ store[tasks[s].id].status = "pending"
        /\ \E p \in UiPosts(tasks[s].id) : p.status = "pending"

\* C8: a successful approve is one of an item that was pending (or
\* rephrased) in the store and leaves it published with an external
\* reference; when the success is delivered, posts and the history show the
\* item as 'posted' and the store holds it published with its reference.
C8_ApprovePublishes ==
    [][\A s \in Slots :
         /\ (Handled("approve", s) /\ tasks'[s].ok)
               => /\ store[tasks[s].id].status \in Editable
                  /\ store'[tasks[s].id].status = "published"
                  /\ store'[tasks[s].id].extId # 0
         /\ (Delivered("approve", s) /\ tasks[s].ok)
               => /\ \A p \in UiPostsNext(tasks[s].id) : p.status = "posted"
                  /\ store'[tasks[s].id].status = "published"
                  /\ store'[tasks[s].id].extId # 0]_vars

\* C8 witness: the approve of an item loaded as pending has succeeded and
\* been delivered
C8_Witness ==
    /\ notification = "Approved & Posted!"
    /\ \E i \in Items :
          /\ store[i].status = "published" /\ store[i].extId # 0
          /\ UiPosts(i) # {}
          /\ \A p \in UiPosts(i) : p.status = "posted"

\* C9: a reject request carries the status rejected; a successful reject
\* leaves the item rejected in the store and 'disapproved' in posts and the
\* history; a reject of an item already rejected leaves it rejected, whether
\* the backend accepts or refuses it, and its delivery leaves an item shown
\* as 'disapproved' so.
C9_RejectIdempotent ==
    [][\A s \in Slots :
         /\ tasks'[s].op = "reject" => tasks'[s].status = "rejected"
         /\ (Handled("reject", s) /\ tasks'[s].ok)
               => store'[tasks[s].id].status = "rejected"
         /\ (Handled("reject", s) /\ store[tasks[s].id].status = "rejected")
               => store' = store
         /\ (Delivered("reject", s) /\ tasks[s].ok)
               => \A p \in UiPostsNext(tasks[s].id) : p.status = "disapproved"
         /\ (Delivered("reject", s)
                /\ \A p \in UiPosts(tasks[s].id) : p.status = "disapproved")
               => UiUnchanged]_vars

\* C9 witness: a second reject of an item already rejected and shown as
\* 'disapproved' has been accepted by the backend as a no-op
C9_Witness ==
    \E s \in Slots :
        /\ tasks[s].op = "reject" /\ tasks[s].pc = "resp" /\ tasks[s].ok
        /\ store[tasks[s].id].status = "rejected"
        /\ notification = "Post disapproved"
        /\ UiPosts(tasks[s].id) # {}
        /\ \A p \in UiPosts(tasks[s].id) : p.status = "disapproved"

\* C10: a successful backend rephrase stores the new text with status
\* rephrased; the refresh that follows shows every item fetched as rephrased
\* with status 'pending' and the fetched text, so that its textarea, Approve
\* and Reject controls are enabled; the store accepts an edit, a reject and
\* an approve of a rephrased item as of a pending one, and a successful
\* approve takes it to published.
C10_RephrasedIsPending ==
    [][\A s \in Slots :
         /\ (Handled("rephrase", s) /\ tasks'[s].ok /\ tasks[s].via = "backend")
               => /\ store'[tasks[s].id].status = "rephrased"
                  /\ store'[tasks[s].id].content = tasks'[s].arg
         /\ (Refreshed(s) /\ tasks[s].ok)
               => \A k \in 1..Len(tasks[s].items) :
                     tasks[s].items[k].status = "rephrased"
                       => \A p \in {q \in HistoryPosts' : q.id = tasks[s].items[k].id} :
                             /\ p.content = tasks[s].items[k].content
                             /\ ApproveEnabled(p) /\ RejectEnabled(p) /\ EditEnabled(p)
         /\ ((Handled("approve", s) \/ Handled("reject", s) \/ Handled("edit", s))
                /\ store[tasks[s].id].status = "rephrased")
               => /\ tasks'[s].err # "Conflict"
                  /\ tasks'[s].ok =>
                        /\ tasks[s].op = "approve" => store'[tasks[s].id].status = "published"
                        /\ tasks[s].op = "reject" => store'[tasks[s].id].status = "rejected"
                        /\ tasks[s].op = "edit" => store'[tasks[s].id].content = tasks[s].arg]_vars

\* C10 witness: an item has been rephrased, refreshed into the history with
\* its new text, and then approved: it is published and shown as 'posted'
C10_Witness ==
    /\ notification = "Approved & Posted!"
    /\ \E i \in Items :
          /\ store[i].status = "published"
          /\ \E p \in HistoryPosts :
                p.id = i /\ p.status = "posted" /\ p.content # 1

\* the fraction a / b equals the fraction c / d
SameFraction(a, b, c, d) == a * d = c * b

\* C11: a rephrase request carries exactly tone / 100 of the tone selected
\* when it is requested (50 -> 1/2, 0 -> 0, 100 -> 1), a value in [0, 1], and
\* carries it unchanged until the backend has handled it, whatever the slider
\* does meanwhile; tone / 100 lies in [0, 1] for every value 0..100 of the
\* slider.
C11_ToneMapping ==
    [][\A s \in Slots :
         /\ (tasks[s].op = "none" /\ tasks'[s].op = "rephrase")
               => /\ tone \in SliderValues
                  /\ tasks'[s].tone.den > 0
                  /\ SameFraction(tasks'[s].tone.num, tasks'[s].tone.den, tone, 100)
                  /\ 0 <= tasks'[s].tone.num
                  /\ tasks'[s].tone.num <= tasks'[s].tone.den
                  /\ tone = 50 => SameFraction(tasks'[s].tone.num, tasks'[s].tone.den, 1, 2)
                  /\ tone = 0 => tasks'[s].tone.num = 0
                  /\ tone = 100 => tasks'[s].tone.num = tasks'[s].tone.den
         /\ (tasks[s].op = "rephrase" /\ tasks[s].pc = "sent")
               => tasks'[s].tone = tasks[s].tone
         /\ (tasks[s].op = "none" /\ tasks'[s].op = "rephrase")
               => \A t \in SliderValues :
                     /\ SameFraction(NormalizedTone(t).num, NormalizedTone(t).den, t, 100)
                     /\ 0 <= NormalizedTone(t).num
                     /\ NormalizedTone(t).num <= NormalizedTone(t).den]_vars

\* C11 witness: a request that carries 1/1 is in flight (the slider was at
\* 100 when Rephrase was clicked) and the slider has been moved since
C11_Witness ==
    \E s \in Slots :
        /\ tasks[s].op = "rephrase" /\ tasks[s].pc = "sent"
        /\ tasks[s].tone.num = tasks[s].tone.den
        /\ tone = 0

\* the approve-and-post requests not yet completed
ApproveRequests == {s \in Slots : tasks[s].op = "approve"}

\* C12: a step issues at most one approve-and-post request, and only a click
\* on Approve issues one (no response is delivered and nothing else changes
\* in that step); the delivery of a response, failed or not, ends the
\* invocation and sends nothing; the backend creates the external post of an
\* item exactly when it answers success, and none when it answers failure.
C12_OnePostNoRetry ==
    [][/\ Cardinality(ApproveRequests') <= Cardinality(ApproveRequests) + 1
       /\ (ApproveRequests' \ ApproveRequests # {})
             => /\ \A s \in Slots : tasks[s].op # "none" => tasks'[s] = tasks[s]
                /\ \E p \in PostsOf(CurrentPosts) :
                      /\ ApproveEnabled(p)
                      /\ \A s \in ApproveRequests' \ ApproveRequests : tasks'[s].id = p.id
                /\ UNCHANGED <<store, posts, postHistory, notification>>
       /\ \A s \in Slots :
            /\ (tasks[s].op = "approve" /\ tasks[s].pc = "resp" /\ tasks'[s] # tasks[s])
                  => /\ tasks'[s] = NoTask
                     /\ ApproveRequests' = ApproveRequests \ {s}
            /\ Handled("approve", s)
                  => IF tasks'[s].ok
                     THEN /\ store[tasks[s].id].extId = 0
                          /\ store'[tasks[s].id].extId = 1
                     ELSE store' = store]_vars

\* C12 witness: an approve has failed and its failure has been delivered; the
\* item is still pending and no request for it is outstanding
C12_Witness ==
    /\ notification = "Error approving and posting"
    /\ ApproveRequests = {}
    /\ \E i \in Items :
          /\ store[i].status = "pending" /\ store[i].extId = 0
          /\ \E p \in Shown(i) : p.status = "pending"

\* C13: a publish call with a text longer than the platform's limit (280 for
\* X, 300 for Bluesky) ends with ValidationError and creates no external
\* post; a call with a text within the limit never ends with ValidationError,
\* and creates one external post exactly when it succeeds.
C13_LengthValidation ==
    [][(adapter.pc = "called" /\ adapter'.pc = "done")
          => /\ (adapter.platform = "X" /\ adapter.len > 280)
                   => adapter'.result = "ValidationError"
             /\ (adapter.platform = "Bluesky" /\ adapter.len > 300)
                   => adapter'.result = "ValidationError"
             /\ (adapter.platform = "X" /\ adapter.len <= 280)
                   => adapter'.result # "ValidationError"
             /\ (adapter.platform = "Bluesky" /\ adapter.len <= 300)
                   => adapter'.result # "ValidationError"
             /\ adapter'.created =
                   adapter.created + (IF adapter'.result = "ok" THEN 1 ELSE 0)
             /\ adapter'.result = "ValidationError" => adapter'.created = adapter.created]_vars

\* C13 witness: a text of 281 characters was refused for X
C13_Witness ==
    /\ adapter.pc = "done"
    /\ adapter.platform = "X"
    /\ adapter.len = 281
    /\ adapter.result = "ValidationError"
    /\ adapter.created = 0

\* the response of the saveValues / clearValues call in slot s is delivered
SocialDelivered(op, s) ==
    socialTasks[s].op = op /\ socialTasks[s].pc = "resp" /\ socialTasks'[s].op = "none"

\* C14: when a save ends successfully (the success message is shown), the
\* hook's values are the submitted ones, local storage holds their JSON text
\* (which reads back as the same values) and the status map is the one the
\* backend returned (the empty map when it returned none); when a clear ends
\* successfully, the values are the defaults, the local-storage entry is gone
\* and the status map is the one returned.  The backend holds the submitted
\* fields after a save it accepts and none after a clear it accepts.
C14_SaveAndClear ==
    [][\A s \in SocialSlots :
         /\ (SocialDelivered("save", s)
                /\ notification' = "Social credentials synced with backend.")
               => /\ socialTasks[s].ok
                  /\ socialValues' = socialTasks[s].values
                  /\ localStorage' = JSONStringify(socialTasks[s].values)
                  /\ readFromStorage(localStorage') = socialTasks[s].values
                  /\ socialTasks[s].status # Missing
                        => socialStatus' = socialTasks[s].status
                  /\ socialTasks[s].status = Missing => socialStatus' = EmptyStatus
                  /\ socialError' = NoError
         /\ (SocialDelivered("clear", s) /\ socialTasks[s].ok)
               => /\ socialValues' = defaultSocialEnvValues
                  /\ localStorage' = Absent
                  /\ readFromStorage(localStorage') = defaultSocialEnvValues
                  /\ socialTasks[s].status # Missing
                        => socialStatus' = socialTasks[s].status
                  /\ socialTasks[s].status = Missing => socialStatus' = EmptyStatus
                  /\ socialError' = NoError
         /\ (socialTasks[s].pc = "sent" /\ socialTasks'[s].pc = "resp"
                /\ socialTasks'[s].ok /\ socialTasks'[s].status # Missing)
               => /\ socialTasks[s].op = "save"
                     => \A f \in Fields :
                           /\ backendSecrets'[ApiKey(f)] = socialTasks[s].values[f]
                           /\ socialTasks'[s].status[ApiKey(f)]
                                 = (socialTasks[s].values[f] # "")
                  /\ socialTasks[s].op = "clear"
                     => \A k \in ApiKeys :
                           backendSecrets'[k] = "" /\ ~socialTasks'[s].status[k]]_vars

\* C14 witness: a save of typed credentials has succeeded: the hook, local
\* storage and the backend hold them and the status map reports them
C14_Witness ==
    /\ notification = "Social credentials synced with backend."
    /\ socialValues["twitterApiKey"] = "secret"
    /\ localStorage = JSONStringify(socialValues)
    /\ backendSecrets = toSocialEnvApiPayload(socialValues)
    /\ socialStatus = StatusOf(backendSecrets)
    /\ \A s \in SocialSlots : socialTasks[s].op = "none"

\* C15: when a successful edit of an item is delivered, the content
\* displayed for it (in the current push's posts) is the text entered, and
\* the status displayed for it is the one displayed before.
C15_EditDisplayed ==
    [][\A s \in Slots :
         (Delivered("edit", s) /\ tasks[s].ok)
            => /\ \A p \in PostsOf(CurrentPosts)' :
                     p.id = tasks[s].id => p.content = tasks[s].arg
               /\ {p.status : p \in {q \in PostsOf(CurrentPosts) : q.id = tasks[s].id}}
                     = {p.status : p \in {q \in PostsOf(CurrentPosts)' : q.id = tasks[s].id}}]_vars

\* the edit requests for item i not yet completed
EditRequests(i) == {s \in Slots : tasks[s].op = "edit" /\ tasks[s].id = i}

\* C16: whenever no edit request for an item is in flight, the content that
\* posts holds for the item is the content the store holds for it.
C16_UiFollowsStore ==
    \A i \in Items :
        EditRequests(i) = {}
           => \A p \in PostsOf(posts) : p.id = i => p.content = store[i].content

\* C17: at most one approve-and-post request per post is outstanding.
C17_OneApproveOutstanding ==
    \A i \in Items :
        Cardinality({s \in Slots : tasks[s].op = "approve" /\ tasks[s].id = i}) <= 1

\* the content has been fetched and converted in this step (the mount effect
\* or a refresh)
Presented(s) ==
    \/ s = 0 /\ loadPc = "start" /\ loadPc' = "done" /\ backendConnected'
    \/ s \in Slots /\ Refreshed(s) /\ tasks[s].ok

\* the items a step presents: the ones in the store, or the ones a refresh fetched
PresentedItems(s) ==
    IF s = 0 THEN ContentItems ELSE tasks[s].items

\* C18: a content item is presented as 'posted' iff its stored status is
\* published, as 'disapproved' iff it is rejected, and as 'pending' iff it is
\* pending or rephrased, whenever content is fetched and converted.
C18_PostedIffPublished ==
    [][\A s \in {0} \cup Slots :
         Presented(s)
            => \A k \in 1..Len(PresentedItems(s)) :
                  \A p \in {q \in HistoryPosts' : q.id = PresentedItems(s)[k].id} :
                     /\ p.status = "posted" <=> PresentedItems(s)[k].status = "published"
                     /\ p.status = "disapproved" <=> PresentedItems(s)[k].status = "rejected"
                     /\ p.status = "pending"
                           <=> PresentedItems(s)[k].status \in {"pending", "rephrased"}]_vars

\* C19: mapping a backend status of {pending, rejected, published} to its UI
\* status and back gives the same status, and so does mapping a UI status of
\* {pending, disapproved, posted} to the backend and back; so the status a
\* reject request carries is presented as the status the request was made
\* with, and the UI status of a fetched item maps back to its stored status.
C19_StatusRoundTrip ==
    [][/\ \A b \in {"pending", "rejected", "published"} :
             BackendStatus(ConvertStatus(b)) = b
       /\ \A u \in {"pending", "disapproved", "posted"} :
             ConvertStatus(BackendStatus(u)) = u
       /\ \A s \in Slots :
             (tasks[s].op = "none" /\ tasks'[s].op = "reject")
                => ConvertStatus(tasks'[s].status) = "disapproved"
       /\ (loadPc = "start" /\ loadPc' = "done" /\ backendConnected')
             => \A p \in HistoryPosts' :
                   store[p.id].status \in {"pending", "rejected", "published"}
                      => BackendStatus(p.status) = store[p.id].status]_vars

\* C19 witness: a rejected item was fetched and is shown as 'disapproved'
\* (backend to UI), and a reject request carrying 'rejected' for a post the
\* UI called 'disapproved' is in flight (UI to backend)
C19_Witness ==
    \E s \in Slots :
        /\ tasks[s].op = "reject" /\ tasks[s].pc = "sent"
        /\ tasks[s].status = "rejected"
        /\ store[tasks[s].id].status = "rejected"
        /\ \E p \in HistoryPosts : p.id = tasks[s].id /\ p.status = "disapproved"

\* `post.repository || 'unknown'` and `post.branch || 'main'`
RepositoryOrUnknown(i) == IF Repository(i) = <<>> THEN <<"unknown">> ELSE Repository(i)
BranchOrMain(i) == IF Branch(i) = <<>> THEN <<"main">> ELSE Branch(i)

\* the pushes of the history that hold a post of item i
PushesOf(i) ==
    {k \in 1..Len(postHistory) : \E p \in PostsOf(postHistory[k].posts) : p.id = i}

\* C20: once the content is loaded, every item is in exactly one push and
\* appears there once, and two items are in the same push if and only if
\* they have the same repository (a missing one counting as 'unknown') and
\* the same branch (a missing one counting as 'main').
C20_GroupedByRepositoryAndBranch ==
    postHistory # <<>>
       => /\ \A i \in DOMAIN store : Cardinality(PushesOf(i)) = 1
          /\ \A i, j \in DOMAIN store :
                (PushesOf(i) = PushesOf(j))
                   <=> (/\ RepositoryOrUnknown(i) = RepositoryOrUnknown(j)
                        /\ BranchOrMain(i) = BranchOrMain(j))

\* C22: the only timeout pending is the one the most recent showNotification
\* call started, and one is pending while a message is shown; a call leaves
\* its own timeout as the only one pending (the previous one is cancelled);
\* a message is hidden only by the expiry of the timeout of the most recent
\* call; every message shown is eventually hidden by that timeout or replaced
\* by the message of a later call; and once showNotification is called no
\* more, the notification is eventually hidden for good.
C22_NotificationTimesOut ==
    /\ [](timers \subseteq {messageTimeoutRef})
    /\ [](notification # "" => timers = {messageTimeoutRef})
    /\ [][/\ (messageTimeoutRef' # messageTimeoutRef)
                => (timers' = {messageTimeoutRef'} /\ notification' # "")
          /\ (notification # "" /\ notification' = "")
                => /\ messageTimeoutRef \in timers
                   /\ timers' = timers \ {messageTimeoutRef}
                   /\ messageTimeoutRef' = messageTimeoutRef]_vars
    /\ \A id \in TimerIds :
          (messageTimeoutRef = id /\ notification # "")
             ~> (notification = "" \/ messageTimeoutRef # id)
    /\ <>[][messageTimeoutRef' = messageTimeoutRef]_vars => <>[](notification = "")

\* C22 witness: a second message is shown and the timeout of the second call
\* is the only one pending
C22_Witness ==
    /\ notification = "Error approving and posting"
    /\ messageTimeoutRef = 2
    /\ timers = {2}

\* the posts of the list that are not posts of item i are the same, at the
\* same places, after the step
OthersKept(before, after, i) ==
    /\ Len(after) = Len(before)
    /\ \A k \in 1..Len(before) : before[k].id # i => after[k] = before[k]

\* C21: when a successful approve, reject or edit of an item is delivered,
\* every post of another item keeps its status and content, in posts and in
\* every push of the history, and no push is added, removed or renamed.
C21_OtherPostsUnchanged ==
    [][\A s \in Slots :
         ((Delivered("approve", s) \/ Delivered("reject", s) \/ Delivered("edit", s))
             /\ tasks[s].ok)
            => /\ OthersKept(posts, posts', tasks[s].id)
               /\ Len(postHistory') = Len(postHistory)
               /\ \A k \in 1..Len(postHistory) :
                     /\ postHistory'[k].id = postHistory[k].id
                     /\ OthersKept(postHistory[k].posts, postHistory'[k].posts,
                                   tasks[s].id)]_vars

\* C21 witness: an item has been approved and is shown as 'posted', next to a
\* post of the same push still shown as 'disapproved' and a post of another
\* push, in posts and in the history
C21_Witness ==
    /\ notification = "Approved & Posted!"
    /\ \E p, q \in PostsOf(posts) :
          /\ p.id = ReviewedItem /\ p.status = "posted"
          /\ q.id # ReviewedItem /\ q.status = "disapproved"
    /\ \E k \in 1..Len(postHistory) :
          /\ postHistory[k].posts = posts
          /\ \E m \in 1..Len(postHistory) :
                m # k /\ \E r \in PostsOf(postHistory[m].posts) : r.status = "disapproved"

\* C23: whenever a push is selected, it is a push of the history and posts is
\* the list of its posts.
C23_PostsMatchSelectedPush ==
    currentPushId # Null
       => /\ FindPush(postHistory, currentPushId, 1) # 0
          /\ posts = postHistory[FindPush(postHistory, currentPushId, 1)].posts

\* the rephrasePost invocations for item i that have not ended (the request
\* or the refresh that follows it is awaited)
RephraseRequests(i) == {s \in Slots : tasks[s].op = "rephrase" /\ tasks[s].id = i}

\* C24: isLoading[p] is true exactly while a rephrase of p is in flight, and
\* at most one is; a rephrase of p is started only when the flag is false (the
\* Rephrase button is enabled), and the step that ends one, successful or
\* not, sets the flag to false.
C24_LoadingTracksRephrase ==
    /\ [](\A i \in Items :
            /\ Cardinality(RephraseRequests(i)) <= 1
            /\ isLoading[i] <=> RephraseRequests(i) # {})
    /\ [][\A s \in Slots :
            /\ (tasks[s].op = "none" /\ tasks'[s].op = "rephrase")
                  => /\ ~isLoading[tasks'[s].id]
                     /\ isLoading'[tasks'[s].id]
            /\ (tasks[s].op = "rephrase" /\ tasks'[s].op = "none")
                  => /\ isLoading[tasks[s].id]
                     /\ ~isLoading'[tasks[s].id]]_vars

\* C24 witness: a rephrase has failed and its flag was reset, and the next
\* rephrase of the same post is in flight, awaiting its refresh
C24_Witness ==
    \E s \in Slots :
        /\ tasks[s].op = "rephrase" /\ tasks[s].pc = "refreshResp"
        /\ isLoading[tasks[s].id]
        /\ notification = "Error rephrasing post"

\* the notifications of a successful save and of a successful clear
SuccessMessages ==
    {"Social credentials synced with backend.",
     "Cleared social credentials from backend."}

\* C25: when a save or a clear ends in failure (the hook's error is set), the
\* hook's values, the local-storage entry and the status map are the ones
\* from before the call, the error is the message of the operation, and the
\* notification shown is not the success message.
C25_FailureChangesNothing ==
    [][\A s \in SocialSlots :
         ((SocialDelivered("save", s) \/ SocialDelivered("clear", s))
             /\ socialError' # NoError)
            => /\ socialValues' = socialValues
               /\ localStorage' = localStorage
               /\ socialStatus' = socialStatus
               /\ socialError' = IF socialTasks[s].op = "save"
                                  THEN "Failed to persist social credentials to backend."
                                  ELSE "Unable to clear social credentials on backend."
               /\ notification' \notin SuccessMessages \cup {""}]_vars

\* the saveValues / clearValues calls that have not ended
SyncRequests == {s \in SocialSlots : socialTasks[s].op \in {"save", "clear"}}

\* C26: at most one save or clear is in flight, and while one is, isSyncing
\* holds; while isSaving, isClearing or isSyncing holds, neither Save nor
\* Clear is enabled; a save or clear starts only when none is in flight, and
\* the step that ends one, successful or not, leaves isSyncing false.
C26_OneSyncInFlight ==
    /\ [](/\ Cardinality(SyncRequests) <= 1
          /\ SyncRequests # {} => isSyncing
          /\ (isSaving \/ isClearing \/ isSyncing) => (~SaveEnabled /\ ~ClearEnabled))
    /\ [][\A s \in SocialSlots :
            /\ (s \in SyncRequests' \ SyncRequests)
                  => (SyncRequests = {} /\ isSyncing')
            /\ (SocialDelivered("save", s) \/ SocialDelivered("clear", s))
                  => (~isSyncing' /\ ~isSaving' /\ ~isClearing')]_vars

\* C26 witness: a clear is in flight with the modal open and a free slot for
\* another call; Save, which isSaving alone would not disable, is disabled
C26_Witness ==
    /\ isSocialModalOpen
    /\ \E s \in SyncRequests : socialTasks[s].op = "clear" /\ socialTasks[s].pc = "sent"
    /\ FreeSocialSlots # {}
    /\ ~isSaving /\ isSyncing /\ ~SaveEnabled

\* C27: when content is loaded and no push is selected, the step that
\* selects one selects the last push of the history and makes its posts the
\* posts displayed; a selected id is always the id of a push of the history,
\* also after a refresh has replaced the history; a step changes the
\* selection only to a push of the history, together with posts; and
\* loadPush with an id no push has changes neither currentPushId nor posts.
C27_PushSelection ==
    /\ [](currentPushId # Null => FindPush(postHistory, currentPushId, 1) # 0)
    /\ [][/\ (currentPushId = Null /\ Len(postHistory) > 0
                 /\ (currentPushId' # Null \/ posts' # posts))
                => /\ currentPushId' = postHistory[Len(postHistory)].id
                   /\ posts' = postHistory[Len(postHistory)].posts
                   /\ CurrentPosts' = posts'
          /\ (currentPushId' # currentPushId)
                => \E k \in 1..Len(postHistory) :
                      /\ currentPushId' = postHistory[k].id
                      /\ posts' = postHistory[k].posts
          /\ \A pushId \in PushIds :
                (FindPush(postHistory, pushId, 1) = 0 /\ LoadPushTo(pushId))
                   => (currentPushId' = currentPushId /\ posts' = posts)]_vars

\* C27 witness: a push other than the last one is selected after a refresh
\* has replaced the history, which still holds it
C27_Witness ==
    /\ notification = "Post rephrased successfully!"
    /\ Len(postHistory) > 1
    /\ currentPushId = postHistory[1].id
    /\ posts = postHistory[1].posts
    /\ \E p \in HistoryPosts : p.content # 1

\* the payload has one entry for every field, under the field's own key
OneEntryPerField(values, payload) ==
    /\ DOMAIN payload = ApiKeys
    /\ Cardinality(DOMAIN payload) = Len(SocialEnvFieldKeys)
    /\ \A f, g \in Fields : ApiKey(f) = ApiKey(g) => f = g
    /\ \A f \in Fields : payload[ApiKey(f)] = values[f]

\* C28: the payload of a save request has exactly one entry per credential
\* field (ten entries), the keys of two different fields differ, and the
\* entry of every field holds the value the field has in the form.
C28_PayloadOnePerField ==
    [][\A s \in SocialSlots :
         (socialTasks[s].op = "none" /\ socialTasks'[s].op = "save")
            => /\ socialTasks'[s].values = formValues
               /\ socialTasks'[s].payload = toSocialEnvApiPayload(formValues)
               /\ OneEntryPerField(formValues, socialTasks'[s].payload)
               /\ Cardinality(DOMAIN socialTasks'[s].payload) = 10]_vars

\* C28 witness: a save request is in flight whose payload holds a typed
\* secret under twitter_api_key, an empty entry under twitter_api_secret_key
\* and the default under linkedin_redirect_uri
C28_Witness ==
    \E s \in SocialSlots :
        /\ socialTasks[s].op = "save" /\ socialTasks[s].pc = "sent"
        /\ socialTasks[s].payload["twitter_api_key"] = "secret"
        /\ socialTasks[s].payload["twitter_api_secret_key"] = ""
        /\ socialTasks[s].payload["linkedin_redirect_uri"] = "http://localhost:3000/callback"

\* a reference that is not the empty string
NonEmptyRef(r) == r # ""

\* the non-empty references of a field of the item, in their order
Kept(field) == IF field.isArray THEN SelectSeq(field.list, NonEmptyRef) ELSE <<>>

\* C29: the media list of the Post made from an item holds the item's
\* non-empty image references in their order, then its non-empty video
\* references in their order, then its non-empty audio references in their
\* order (each as a data URL), and nothing else; when the three sequences
\* have no non-empty reference, it is the legacy media field, or empty when
\* there is none.
C29_MediaInOrder ==
    postMedia.done
       => LET images == Kept(mediaItem.image_content)
              videos == Kept(mediaItem.video_content)
              audios == Kept(mediaItem.audio_content)
              media == postMedia.media
          IN  IF Len(images) + Len(videos) + Len(audios) > 0
              THEN /\ Len(media) = Len(images) + Len(videos) + Len(audios)
                   /\ \A k \in 1..Len(images) :
                         media[k].url = images[k] /\ media[k].type = "image"
                   /\ \A k \in 1..Len(videos) :
                         /\ media[Len(images) + k].url = videos[k]
                         /\ media[Len(images) + k].type = "video"
                   /\ \A k \in 1..Len(audios) :
                         /\ media[Len(images) + Len(videos) + k].url
                               = AudioDataUrl(audios[k])
                         /\ media[Len(images) + Len(videos) + k].type = "audio"
              ELSE media = IF mediaItem.media.isArray THEN mediaItem.media.list
                           ELSE <<>>

\* C29 witness: an item with an empty and a non-empty image reference, two
\* videos, an audio payload and a legacy media field has been converted: four
\* entries, the image first, the audio last, the legacy entry not among them
C29_Witness ==
    /\ postMedia.done
    /\ mediaItem.image_content.list = <<"", "b">>
    /\ mediaItem.video_content.list = <<"b", "a">>
    /\ mediaItem.audio_content.list = <<"a">>
    /\ mediaItem.media.list # <<>>
    /\ Len(postMedia.media) = 4
    /\ postMedia.media[1] = [url |-> "b", type |-> "image"]
    /\ postMedia.media[4].type = "audio"

\* C30: edits of the credentials form are local until saved: a change of a
\* form field leaves the hook's values, local storage, the backend status and
\* the backend's secrets as they were; when the modal is opened, and when the
\* hook's values change while it is open, the form becomes the hook's values;
\* after a successful clear the form holds the defaults, and a failed clear
\* leaves the form as it was.
C30_FormLocalUntilSaved ==
    [][/\ InputChange
            => UNCHANGED <<socialValues, localStorage, socialStatus, backendSecrets>>
       /\ (isSocialModalOpen' /\ (~isSocialModalOpen \/ socialValues' # socialValues))
            => formValues' = socialValues'
       /\ \A s \in SocialSlots :
            (/\ socialTasks[s].op = "clear"
             /\ socialTasks[s].pc = "resp"
             /\ socialTasks'[s].op = "none")
               => formValues' = IF socialTasks[s].ok THEN defaultSocialEnvValues
                                ELSE formValues
      ]_vars

\* C30 witness: a clear has failed while the form held edits: the modal is
\* open, the form differs from the hook's values and from the defaults, and
\* the values are still what local storage holds
C30_Witness ==
    /\ isSocialModalOpen
    /\ socialError = "Unable to clear social credentials on backend."
    /\ ~isClearing
    /\ formValues # socialValues
    /\ formValues # defaultSocialEnvValues
    /\ socialValues # defaultSocialEnvValues
    /\ socialValues = readFromStorage(localStorage)

====
